---- MODULE Spec2Model ----
(***************************************************************************)
(* A model of patch_mcp: the unified-diff engine (parse, context match,   *)
(* hunk splice, reverse), the safety gate, and the temp-file-then-rename   *)
(* commit, as implemented in src/src/patch_mcp.                            *)
(*                                                                         *)
(* Python strings are sequences of one-character strings; a file's bytes   *)
(* are such a sequence too.  "\n" is the newline, "\r" the carriage        *)
(* return.                                                                 *)
(***************************************************************************)
EXTENDS Integers, Sequences, FiniteSets, TLC

\* ------------------------------------------------------------------ bounds
\* Longest file drawn in Init, in lines.
MaxLines == 2
\* Longest hunk body drawn in Init, in lines.
MaxBody == 2
\* Calls of one session (a script of tool calls run one after the other).
MaxCalls == 6
\* The writes another process makes to the target during a session.
MaxWrites == 1
\* The last second of the clock.
MaxClock == 3
\* Longest batch or patch list handed to an orchestration function.
MaxBatch == 2
MaxPatches == 3

\* ------------------------------------------------------- program constants
MAX_FILE_SIZE == 10485760
MIN_FREE_SPACE == 104857600

\* ------------------------------------------------------------ str helpers
NL == "\n"
CR == "\r"

Max2(a, b) == IF a >= b THEN a ELSE b
Min2(a, b) == IF a <= b THEN a ELSE b

\* s[i:] with a 0-based i, as Python slices: out-of-range gives the empty string.
From(s, i) == IF i >= Len(s) THEN << >> ELSE SubSeq(s, i + 1, Len(s))

\* str.startswith
StartsWith(s, p) == Len(s) >= Len(p) /\ \A i \in 1..Len(p) : s[i] = p[i]

\* The 1-based index of the first c in s at or after index i, or 0.
IndexFrom(s, c, i) ==
    LET at == {k \in i..Len(s) : s[k] = c}
    IN  IF at = {} THEN 0 ELSE CHOOSE k \in at : \A j \in at : k <= j

\* str.split(c) for a one-character separator c.
RECURSIVE SplitChar(_, _)
SplitChar(s, c) ==
    LET k == IndexFrom(s, c, 1)
    IN  IF k = 0 THEN << s >>
        ELSE << SubSeq(s, 1, k - 1) >> \o SplitChar(From(s, k), c)

\* "sep".join(parts) for a one-character separator.
RECURSIVE JoinChar(_, _)
JoinChar(parts, c) ==
    IF Len(parts) = 0 THEN << >>
    ELSE IF Len(parts) = 1 THEN parts[1]
    ELSE parts[1] \o << c >> \o JoinChar(Tail(parts), c)

\* "".join(parts)
RECURSIVE Concat(_)
Concat(parts) == IF Len(parts) = 0 THEN << >> ELSE parts[1] \o Concat(Tail(parts))

IsSpace(c) == c \in {" ", NL, CR, "\t"}

RECURSIVE LStrip(_)
LStrip(s) == IF Len(s) > 0 /\ IsSpace(s[1]) THEN LStrip(Tail(s)) ELSE s

RECURSIVE RStrip(_)
RStrip(s) == IF Len(s) > 0 /\ IsSpace(s[Len(s)]) THEN RStrip(SubSeq(s, 1, Len(s) - 1)) ELSE s

\* str.strip()
Strip(s) == LStrip(RStrip(s))

\* str.rstrip("\n")
RECURSIVE RStripNL(_)
RStripNL(s) == IF Len(s) > 0 /\ s[Len(s)] = NL THEN RStripNL(SubSeq(s, 1, Len(s) - 1)) ELSE s

\* The length of the leading run of non-whitespace characters of s.
RECURSIVE WordLen(_)
WordLen(s) == IF Len(s) = 0 \/ IsSpace(s[1]) THEN 0 ELSE 1 + WordLen(Tail(s))

\* str.split(): the whitespace-separated words.
RECURSIVE SplitWords(_)
SplitWords(s) ==
    LET t == LStrip(s)
    IN  IF Len(t) = 0 THEN << >>
        ELSE << SubSeq(t, 1, WordLen(t)) >> \o SplitWords(From(t, WordLen(t)))

\* line.split("@@")[1] for a line that starts with "@@": what lies between the
\* leading "@@" and the next "@@" (or the end of the line).
RECURSIVE UpToAtAt(_)
UpToAtAt(s) ==
    IF Len(s) = 0 THEN << >>
    ELSE IF StartsWith(s, << "@", "@" >>) THEN << >>
    ELSE << s[1] >> \o UpToAtAt(Tail(s))

\* The number of parts of s.split("@@").
RECURSIVE CountAtAtParts(_)
CountAtAtParts(s) ==
    IF Len(s) = 0 THEN 1
    ELSE IF StartsWith(s, << "@", "@" >>) THEN 1 + CountAtAtParts(From(s, 2))
    ELSE CountAtAtParts(Tail(s))

DigitChars == << "0", "1", "2", "3", "4", "5", "6", "7", "8", "9" >>

IsDigit(c) == \E d \in 1..10 : DigitChars[d] = c

DigitVal(c) == (CHOOSE d \in 1..10 : DigitChars[d] = c) - 1

RECURSIVE DigitsVal(_, _)
DigitsVal(s, acc) == IF Len(s) = 0 THEN acc ELSE DigitsVal(Tail(s), 10 * acc + DigitVal(s[1]))

\* int(s) succeeds: an optional sign and at least one digit.
IntOk(s) ==
    LET body == IF Len(s) > 0 /\ s[1] \in {"+", "-"} THEN Tail(s) ELSE s
    IN  Len(body) > 0 /\ \A i \in 1..Len(body) : IsDigit(body[i])

\* int(s), where IntOk(s).
IntOf(s) ==
    IF s[1] = "-" THEN 0 - DigitsVal(Tail(s), 0)
    ELSE IF s[1] = "+" THEN DigitsVal(Tail(s), 0)
    ELSE DigitsVal(s, 0)

\* str(n) for n in 0..99.
StrOfNat(n) == IF n < 10 THEN << DigitChars[n + 1] >>
               ELSE << DigitChars[(n \div 10) + 1], DigitChars[(n % 10) + 1] >>

\* Python's clipping of a slice bound k for a list of n items.
PyIdx(k, n) == IF k < 0 THEN Max2(n + k, 0) ELSE Min2(k, n)

\* lines[:k] and lines[k:] as Python evaluates them (negative k counts from the end).
PyHead(lines, k) == SubSeq(lines, 1, PyIdx(k, Len(lines)))
PyTail(lines, k) == From(lines, PyIdx(k, Len(lines)))

\* x in list
InList(x, list) == \E i \in 1..Len(list) : list[i] = x

\* ------------------------------------------------------- validate._parse_patch
\* The words of a hunk header line: line.split("@@")[1].strip().split()
HeaderParts(line) == SplitWords(Strip(UpToAtAt(From(line, 2))))

\* int(parts[0]) and int(parts[1]) if present, of "start,count" (ValueError otherwise).
RangeOk(range) ==
    LET ps == SplitChar(range, ",")
    IN  IntOk(ps[1]) /\ (Len(ps) > 1 => IntOk(ps[2]))

RangeStart(range) == IntOf(SplitChar(range, ",")[1])

RangeCount(range) ==
    LET ps == SplitChar(range, ",")
    IN  IF Len(ps) > 1 THEN IntOf(ps[2]) ELSE 1

\* A header parser that takes every source range to be one line long.
NewHunkCountOne(line) ==
    LET parts == HeaderParts(line)
    IN  [source_start |-> RangeStart(Tail(parts[1])),
         source_count |-> 1,
         target_start |-> RangeStart(Tail(parts[2])),
         target_count |-> RangeCount(Tail(parts[2])),
         context_lines |-> << >>,
         added_lines |-> << >>,
         removed_lines |-> << >>]

\* The hunk header checks of _parse_patch: at least two words, the first a
\* "-start[,count]", the second a "+start[,count]".
HeaderValid(line) ==
    LET parts == HeaderParts(line)
    IN  /\ Len(parts) >= 2
        /\ StartsWith(parts[1], << "-" >>)
        /\ RangeOk(Tail(parts[1]))
        /\ StartsWith(parts[2], << "+" >>)
        /\ RangeOk(Tail(parts[2]))

NewHunk(line) ==
    LET parts == HeaderParts(line)
    IN  [source_start |-> RangeStart(Tail(parts[1])),
         source_count |-> RangeCount(Tail(parts[1])),
         target_start |-> RangeStart(Tail(parts[2])),
         target_count |-> RangeCount(Tail(parts[2])),
         context_lines |-> << >>,
         added_lines |-> << >>,
         removed_lines |-> << >>]

\* The loop of _parse_patch from line i on; acc is the loop's state.  current_hunk
\* is the last item of hunks (the same dict), None while hunks is empty.
RECURSIVE ParseLoop(_, _, _)
ParseLoop(lines, i, acc) ==
    IF i > Len(lines) THEN
        IF ~acc.found_header /\ Len(acc.hunks) > 0
        THEN [acc EXCEPT !.valid = FALSE]
        ELSE acc
    ELSE
        LET line == lines[i]
            n == Len(acc.hunks)
        IN  IF StartsWith(line, << "-", "-", "-" >>) THEN
                ParseLoop(lines, i + 1, [acc EXCEPT !.found_header = TRUE])
            ELSE IF StartsWith(line, << "+", "+", "+" >>) THEN
                IF ~acc.found_header THEN [acc EXCEPT !.valid = FALSE]
                ELSE ParseLoop(lines, i + 1, acc)
            ELSE IF StartsWith(line, << "@", "@" >>) THEN
                IF ~HeaderValid(line) THEN [acc EXCEPT !.valid = FALSE]
                ELSE ParseLoop(lines, i + 1,
                               [acc EXCEPT !.hunks = Append(@, NewHunk(line))])
            ELSE IF n > 0 THEN
                IF StartsWith(line, << "+" >>) THEN
                    ParseLoop(lines, i + 1,
                              [acc EXCEPT !.hunks[n].added_lines = Append(@, Tail(line)),
                                          !.lines_to_add = @ + 1])
                ELSE IF StartsWith(line, << "-" >>) THEN
                    ParseLoop(lines, i + 1,
                              [acc EXCEPT !.hunks[n].removed_lines = Append(@, Tail(line)),
                                          !.lines_to_remove = @ + 1])
                ELSE IF StartsWith(line, << " " >>) THEN
                    ParseLoop(lines, i + 1,
                              [acc EXCEPT !.hunks[n].context_lines = Append(@, Tail(line))])
                ELSE ParseLoop(lines, i + 1, acc)
            ELSE ParseLoop(lines, i + 1, acc)

EmptyParse == [valid |-> TRUE, hunks |-> << >>, lines_to_add |-> 0,
               lines_to_remove |-> 0, found_header |-> FALSE]

\* _parse_patch(patch): [valid, hunks, lines_to_add, lines_to_remove].
ParsePatch(patch) ==
    IF Len(patch) = 0 \/ Len(Strip(patch)) = 0 THEN EmptyParse
    ELSE ParseLoop(SplitChar(patch, NL), 1, EmptyParse)

\* --------------------------------------------------- validate._can_apply_patch
\* The verdict on one hunk: "ok", "range" (the window leaves the file) or
\* "mismatch" (a removed line is not among the window's lines).
HunkVerdict(file_lines, hunk) ==
    LET start_line == hunk.source_start - 1
        end_line == start_line + hunk.source_count
        actual == [k \in 1..(end_line - start_line) |-> RStripNL(file_lines[start_line + k])]
    IN  IF start_line < 0 \/ end_line > Len(file_lines) THEN "range"
        ELSE IF \E r \in 1..Len(hunk.removed_lines) :
                    ~InList(RStripNL(hunk.removed_lines[r]), actual)
             THEN "mismatch"
        ELSE "ok"

\* A matcher that looks at the first hunk only.
FirstBadHunkFirstOnly(file_lines, hunks, i) ==
    IF Len(hunks) = 0 THEN 0
    ELSE IF HunkVerdict(file_lines, hunks[1]) # "ok" THEN 1
    ELSE 0

\* The first hunk, in patch order, whose verdict is not "ok"; 0 when none.
RECURSIVE FirstBadHunk(_, _, _)
FirstBadHunk(file_lines, hunks, i) ==
    IF i > Len(hunks) THEN 0
    ELSE IF HunkVerdict(file_lines, hunks[i]) # "ok" THEN i
    ELSE FirstBadHunk(file_lines, hunks, i + 1)

\* _can_apply_patch(file_lines, hunks): [can_apply, reason].
CanApplyPatch(file_lines, hunks) ==
    LET bad == FirstBadHunk(file_lines, hunks, 1)
    IN  IF bad = 0 THEN [can_apply |-> TRUE, reason |-> "none"]
        ELSE [can_apply |-> FALSE, reason |-> HunkVerdict(file_lines, hunks[bad])]

\* ------------------------------------------------------ apply._parse_patch_hunks
\* A hunk header as _parse_patch_hunks reads it: int() of what follows the first
\* character of the first word, with no check of that character.
ApplyHeaderOk(line) ==
    LET parts == HeaderParts(line)
    IN  Len(parts) >= 2 => RangeOk(Tail(parts[1]))

RECURSIVE HunkLoop(_, _, _)
HunkLoop(lines, i, acc) ==
    IF i > Len(lines) THEN acc
    ELSE
        LET line == lines[i]
            n == Len(acc.hunks)
        IN  IF StartsWith(line, << "@", "@" >>) THEN
                IF ~ApplyHeaderOk(line) THEN [acc EXCEPT !.raised = TRUE]
                ELSE IF Len(HeaderParts(line)) >= 2 THEN
                    HunkLoop(lines, i + 1,
                             [acc EXCEPT !.hunks = Append(@,
                                 [source_start |-> RangeStart(Tail(HeaderParts(line)[1])),
                                  source_count |-> RangeCount(Tail(HeaderParts(line)[1])),
                                  lines |-> << >>])])
                ELSE HunkLoop(lines, i + 1, acc)
            ELSE IF n > 0 THEN
                IF StartsWith(line, << "+" >>) /\ ~StartsWith(line, << "+", "+", "+" >>) THEN
                    HunkLoop(lines, i + 1,
                             [acc EXCEPT !.hunks[n].lines = Append(@, << "add", Tail(line) >>)])
                ELSE IF StartsWith(line, << "-" >>) /\ ~StartsWith(line, << "-", "-", "-" >>) THEN
                    HunkLoop(lines, i + 1,
                             [acc EXCEPT !.hunks[n].lines = Append(@, << "remove", Tail(line) >>)])
                ELSE IF StartsWith(line, << " " >>) THEN
                    HunkLoop(lines, i + 1,
                             [acc EXCEPT !.hunks[n].lines = Append(@, << "context", Tail(line) >>)])
                ELSE HunkLoop(lines, i + 1, acc)
            ELSE HunkLoop(lines, i + 1, acc)

\* _parse_patch_hunks(patch): [raised, hunks]; raised is int()'s ValueError.
ParsePatchHunks(patch) ==
    HunkLoop(SplitChar(patch, NL), 1, [raised |-> FALSE, hunks |-> << >>])

\* -------------------------------------------------------- apply._apply_single_hunk
RECURSIVE NewSection(_)
NewSection(hunk_lines) ==
    IF Len(hunk_lines) = 0 THEN << >>
    ELSE IF hunk_lines[1][1] = "remove" THEN NewSection(Tail(hunk_lines))
    ELSE << hunk_lines[1][2] \o << NL >> >> \o NewSection(Tail(hunk_lines))

ApplySingleHunk(lines, hunk) ==
    LET start_idx == hunk.source_start - 1
    IN  PyHead(lines, start_idx) \o NewSection(hunk.lines)
            \o PyTail(lines, start_idx + hunk.source_count)

\* sorted(hunks, key=source_start, reverse=True): stable, so hunks with equal
\* keys keep their patch order.
RECURSIVE InsertDesc(_, _)
InsertDesc(sorted, h) ==
    IF Len(sorted) = 0 THEN << h >>
    ELSE IF sorted[1].source_start >= h.source_start
         THEN << sorted[1] >> \o InsertDesc(Tail(sorted), h)
    ELSE << h >> \o sorted

RECURSIVE SortDesc(_, _)
SortDesc(hunks, acc) ==
    IF Len(hunks) = 0 THEN acc ELSE SortDesc(Tail(hunks), InsertDesc(acc, hunks[1]))

RECURSIVE ApplyHunks(_, _)
ApplyHunks(lines, sorted_hunks) ==
    IF Len(sorted_hunks) = 0 THEN lines
    ELSE ApplyHunks(ApplySingleHunk(lines, sorted_hunks[1]), Tail(sorted_hunks))

\* _apply_patch_to_lines(original_lines, patch), where the parse did not raise.
ApplyPatchToLines(original_lines, patch) ==
    LET hunks == ParsePatchHunks(patch).hunks
    IN  IF Len(hunks) = 0 THEN original_lines
        ELSE ApplyHunks(original_lines, SortDesc(hunks, << >>))

\* ------------------------------------------------------------ revert._reverse_patch
\* _reverse_hunk_header(header)
ReverseHunkHeader(header) ==
    LET ranges == SplitWords(Strip(UpToAtAt(From(header, 2))))
    IN  IF CountAtAtParts(header) < 3 THEN header
        ELSE IF Len(ranges) < 2 THEN header
        ELSE << "@", "@", " " >> \o << "-" >> \o Tail(ranges[2]) \o << " " >>
                 \o << "+" >> \o Tail(ranges[1]) \o << " ", "@", "@" >>

ReverseLine(line) ==
    IF StartsWith(line, << "-", "-", "-", " " >>) \/ StartsWith(line, << "+", "+", "+", " " >>)
    THEN line
    ELSE IF StartsWith(line, << "@", "@", " " >>) THEN ReverseHunkHeader(line)
    ELSE IF StartsWith(line, << "+" >>) /\ ~StartsWith(line, << "+", "+", "+" >>)
    THEN << "-" >> \o Tail(line)
    ELSE IF StartsWith(line, << "-" >>) /\ ~StartsWith(line, << "-", "-", "-" >>)
    THEN << "+" >> \o Tail(line)
    ELSE line

\* _reverse_patch(patch)
ReversePatch(patch) ==
    IF Len(patch) = 0 \/ Len(Strip(patch)) = 0 THEN patch
    ELSE LET lines == SplitChar(patch, NL)
         IN  JoinChar([i \in 1..Len(lines) |-> ReverseLine(lines[i])], NL)

\* ------------------------------------------------------------ patch texts
\* The unified-diff texts handed to the tools, written as the tests write them.
MinusHeader == << "-", "-", "-", " ", "f" >>
PlusHeader == << "+", "+", "+", " ", "f" >>

\* "@@ -ss,sc +ts,tc @@"
HunkHeader(ss, sc, ts, tc) ==
    << "@", "@", " ", "-" >> \o StrOfNat(ss) \o << "," >> \o StrOfNat(sc)
        \o << " ", "+" >> \o StrOfNat(ts) \o << "," >> \o StrOfNat(tc)
        \o << " ", "@", "@" >>

\* "@@ -ss +ts @@": the counts left out.
ShortHunkHeader(ss, ts) ==
    << "@", "@", " ", "-" >> \o StrOfNat(ss) \o << " ", "+" >> \o StrOfNat(ts)
        \o << " ", "@", "@" >>

\* The text of the lines, each ended by a newline.
PatchText(lines) == Concat([i \in 1..Len(lines) |-> lines[i] \o << NL >>])

\* -------------------------------------------------------- generate.generate_patch
\* difflib.unified_diff(original_lines, modified_lines, n=context_lines,
\* lineterm=""), as generate_patch calls it (generate.py 111-120).  Positions
\* are 0-based and ranges half-open, as in difflib; no line is junk.
\* The length of the common run that starts at a[i] and b[j].
MatchLen(a, b, i, j, ahi, bhi) ==
    LET differ == {k \in 1..Min2(ahi - i, bhi - j) : a[i + k] # b[j + k]}
    IN  IF differ = {} THEN Max2(Min2(ahi - i, bhi - j), 0)
        ELSE (CHOOSE k \in differ : \A m \in differ : k <= m) - 1

\* SequenceMatcher.find_longest_match: the longest matching block of
\* a[alo:ahi] and b[blo:bhi], the one that starts earliest in a and, of those,
\* earliest in b; << alo, blo, 0 >> if nothing matches.
FindLongestMatch(a, b, alo, ahi, blo, bhi) ==
    LET len(s) == MatchLen(a, b, s[1], s[2], ahi, bhi)
        most(lens) == CHOOSE n \in lens : \A m \in lens : m <= n
        of(starts, top) == {s \in starts : top > 0 /\ len(s) = top}
        longest(starts) == of(starts, most({len(s) : s \in starts} \cup {0}))
        first(found) == CHOOSE s \in found :
                            \A t \in found : s[1] < t[1] \/ (s[1] = t[1] /\ s[2] <= t[2])
        block(s) == << s[1], s[2], len(s) >>
        best(found) == IF found = {} THEN << alo, blo, 0 >> ELSE block(first(found))
    IN  best(longest((alo..(ahi - 1)) \X (blo..(bhi - 1))))

\* SequenceMatcher.get_matching_blocks, sorted, without the closing dummy: the
\* longest match, and the same again to its left and to its right.
RECURSIVE MatchingBlocks(_, _, _, _, _, _)
MatchingBlocks(a, b, alo, ahi, blo, bhi) ==
    LET around(m) ==
            IF m[3] = 0 THEN << >>
            ELSE MatchingBlocks(a, b, alo, m[1], blo, m[2]) \o << m >>
                     \o MatchingBlocks(a, b, m[1] + m[3], ahi, m[2] + m[3], bhi)
    IN  around(FindLongestMatch(a, b, alo, ahi, blo, bhi))

Opcode(tag, i1, i2, j1, j2) == [tag |-> tag, i1 |-> i1, i2 |-> i2, j1 |-> j1, j2 |-> j2]

\* SequenceMatcher.get_opcodes from position (i, j) on.
RECURSIVE Opcodes(_, _, _)
Opcodes(blocks, i, j) ==
    IF Len(blocks) = 0 THEN << >>
    ELSE LET ai == blocks[1][1]
             bj == blocks[1][2]
             size == blocks[1][3]
             gap == IF i < ai /\ j < bj THEN << Opcode("replace", i, ai, j, bj) >>
                    ELSE IF i < ai THEN << Opcode("delete", i, ai, j, bj) >>
                    ELSE IF j < bj THEN << Opcode("insert", i, ai, j, bj) >>
                    ELSE << >>
             same == IF size > 0 THEN << Opcode("equal", ai, ai + size, bj, bj + size) >>
                     ELSE << >>
         IN  gap \o same \o Opcodes(Tail(blocks), ai + size, bj + size)

\* The loop of SequenceMatcher.get_grouped_opcodes(n): a run of more than 2n
\* equal lines ends the group and begins the next.
RECURSIVE GroupLoop(_, _, _)
GroupLoop(codes, group, n) ==
    IF Len(codes) = 0
    THEN IF Len(group) > 0 /\ ~(Len(group) = 1 /\ group[1].tag = "equal")
         THEN << group >> ELSE << >>
    ELSE LET c == codes[1]
         IN  IF c.tag = "equal" /\ c.i2 - c.i1 > n + n
             THEN << Append(group, [c EXCEPT !.i2 = Min2(c.i2, c.i1 + n),
                                              !.j2 = Min2(c.j2, c.j1 + n)]) >>
                      \o GroupLoop(Tail(codes),
                                   << [c EXCEPT !.i1 = Max2(c.i1, c.i2 - n),
                                                !.j1 = Max2(c.j1, c.j2 - n)] >>, n)
             ELSE GroupLoop(Tail(codes), Append(group, c), n)

\* SequenceMatcher.get_grouped_opcodes(n): the leading and the trailing equal
\* run are cut to n lines first.
GroupedOpcodes(a, b, n) ==
    LET codes(found) == IF Len(found) = 0 THEN << Opcode("equal", 0, 1, 0, 1) >> ELSE found
        lead(c) == [c EXCEPT !.i1 = Max2(c.i1, c.i2 - n), !.j1 = Max2(c.j1, c.j2 - n)]
        trail(c) == [c EXCEPT !.i2 = Min2(c.i2, c.i1 + n), !.j2 = Min2(c.j2, c.j1 + n)]
        led(cs) == IF cs[1].tag = "equal" THEN [cs EXCEPT ![1] = lead(cs[1])] ELSE cs
        cut(cs) == IF cs[Len(cs)].tag = "equal"
                   THEN [cs EXCEPT ![Len(cs)] = trail(cs[Len(cs)])] ELSE cs
        blocks == Append(MatchingBlocks(a, b, 0, Len(a), 0, Len(b)), << Len(a), Len(b), 0 >>)
    IN  GroupLoop(cut(led(codes(Opcodes(blocks, 0, 0)))), << >>, n)

\* difflib._format_range_unified(start, stop)
FormatRangeUnified(start, stop) ==
    IF stop - start = 1 THEN StrOfNat(start + 1)
    ELSE IF stop - start = 0 THEN StrOfNat(start) \o << "," >> \o StrOfNat(0)
    ELSE StrOfNat(start + 1) \o << "," >> \o StrOfNat(stop - start)

\* The lines unified_diff yields for one opcode.
OpcodeLines(a, b, c) ==
    LET of(tag, lines, lo, hi) == [k \in 1..(hi - lo) |-> << tag >> \o lines[lo + k]]
    IN  IF c.tag = "equal" THEN of(" ", a, c.i1, c.i2)
        ELSE (IF c.tag \in {"replace", "delete"} THEN of("-", a, c.i1, c.i2) ELSE << >>)
                 \o (IF c.tag \in {"replace", "insert"} THEN of("+", b, c.j1, c.j2) ELSE << >>)

\* The lines unified_diff yields for one group: the "@@" line and the body.
GroupLines(a, b, group) ==
    LET first == group[1]
        last == group[Len(group)]
    IN  << << "@", "@", " ", "-" >> \o FormatRangeUnified(first.i1, last.i2)
               \o << " ", "+" >> \o FormatRangeUnified(first.j1, last.j2)
               \o << " ", "@", "@" >> >>
            \o Concat([k \in 1..Len(group) |-> OpcodeLines(a, b, group[k])])

\* list(difflib.unified_diff(...)): the two file lines before the first group.
UnifiedDiff(a, b, fromfile, tofile, n) ==
    LET lines(groups) ==
            IF Len(groups) = 0 THEN << >>
            ELSE << << "-", "-", "-", " ", fromfile >>, << "+", "+", "+", " ", tofile >> >>
                     \o Concat([k \in 1..Len(groups) |-> GroupLines(a, b, groups[k])])
    IN  lines(GroupedOpcodes(a, b, n))

\* The patch text: "\n".join(diff_lines) + "\n", or "" (generate.py 122-126).
JoinDiff(diff_lines) ==
    IF Len(diff_lines) > 0 THEN JoinChar(diff_lines, NL) \o << NL >> ELSE << >>

\* The counts generate_patch makes of the diff lines (generate.py 128-139).
DiffChanges(diff_lines) ==
    LET count(P(_)) == Cardinality({k \in 1..Len(diff_lines) : P(diff_lines[k])})
        hunk(l) == StartsWith(l, << "@", "@" >>)
        added(l) == ~hunk(l) /\ StartsWith(l, << "+" >>) /\ ~StartsWith(l, << "+", "+", "+" >>)
        removed(l) == ~hunk(l) /\ ~added(l) /\ StartsWith(l, << "-" >>)
                          /\ ~StartsWith(l, << "-", "-", "-" >>)
    IN  [lines_added |-> count(added), lines_removed |-> count(removed), hunks |-> count(hunk)]

\* ------------------------------------------------------------ message texts
\* The characters of the texts in the order of their code points.
CodeOrder ==
    << "\t", "\n", "\r", " ", "!", "\"", "#", "$", "%", "&", "'", "(", ")", "*", "+",
       ",", "-", ".", "/", "0", "1", "2", "3", "4", "5", "6", "7", "8", "9", ":", ";",
       "<", "=", ">", "?", "@", "A", "B", "C", "D", "E", "F", "G", "H", "I", "J", "K",
       "L", "M", "N", "O", "P", "Q", "R", "S", "T", "U", "V", "W", "X", "Y", "Z", "[",
       "\\", "]", "^", "_", "a", "b", "c", "d", "e", "f", "g", "h", "i", "j", "k",
       "l", "m", "n", "o", "p", "q", "r", "s", "t", "u", "v", "w", "x", "y", "z", "{",
       "|", "}", "~" >>

UpperChars ==
    << "A", "B", "C", "D", "E", "F", "G", "H", "I", "J", "K", "L", "M", "N", "O", "P",
       "Q", "R", "S", "T", "U", "V", "W", "X", "Y", "Z" >>

LowerChars ==
    << "a", "b", "c", "d", "e", "f", "g", "h", "i", "j", "k", "l", "m", "n", "o", "p",
       "q", "r", "s", "t", "u", "v", "w", "x", "y", "z" >>

\* str.lower(), on ASCII letters.
Lower(s) ==
    [i \in 1..Len(s) |->
        IF \E k \in 1..26 : UpperChars[k] = s[i]
        THEN LowerChars[CHOOSE k \in 1..26 : UpperChars[k] = s[i]]
        ELSE s[i]]

\* sub in s
Contains(s, sub) ==
    \E i \in 0..(Len(s) - Len(sub)) : SubSeq(s, i + 1, i + Len(sub)) = sub

\* str(n) for an int n in -99..99.
StrOfInt(n) == IF n < 0 THEN << "-" >> \o StrOfNat(0 - n) ELSE StrOfNat(n)

\* s < t as Python compares strings: by the code points of their characters.
StrLess(s, t) ==
    LET ord(c) == CHOOSE k \in 1..Len(CodeOrder) : CodeOrder[k] = c
        differ == {k \in 1..Min2(Len(s), Len(t)) : s[k] # t[k]}
        first(at) == CHOOSE k \in at : \A j \in at : k <= j
    IN  IF differ = {} THEN Len(s) < Len(t)
        ELSE ord(s[first(differ)]) < ord(t[first(differ)])

\* ------------------------------------------------- utils.sanitize_error_message
\* The default of sanitize_error_message's max_content_length.
MaxContentLength == 50

ContentPlaceholder ==
    << "'", "[", "C", "O", "N", "T", "E", "N", "T", "]", "'" >>

\* re.sub(r"'([^']*)'", replace_long_quotes, message): from left to right, each
\* quote and the next one enclose a content; a content longer than
\* max_content_length becomes the placeholder.
RECURSIVE ReplaceLongQuotes(_, _)
ReplaceLongQuotes(message, max_content_length) ==
    LET open == IndexFrom(message, "'", 1)
        close == IF open = 0 THEN 0 ELSE IndexFrom(message, "'", open + 1)
        shown(content) == IF Len(content) > max_content_length THEN ContentPlaceholder
                          ELSE << "'" >> \o content \o << "'" >>
    IN  IF close = 0 THEN message
        ELSE SubSeq(message, 1, open - 1) \o shown(SubSeq(message, open + 1, close - 1))
                 \o ReplaceLongQuotes(From(message, close), max_content_length)

\* The length of the leading run of characters of s that are no whitespace and
\* not in stops.
SegmentLen(s, stops) ==
    LET ends == {k \in 1..Len(s) : IsSpace(s[k]) \/ s[k] \in stops}
    IN  IF ends = {} THEN Len(s) ELSE (CHOOSE k \in ends : \A j \in ends : k <= j) - 1

\* The components that follow one another in s, each after a separator sep:
\* the pairs << first, last >> of their positions in s, from position i on.
RECURSIVE PathChain(_, _, _, _)
PathChain(s, i, sep, stops) ==
    LET n == SegmentLen(From(s, i), stops)
    IN  IF i > Len(s) \/ s[i] # sep \/ n = 0 THEN << >>
        ELSE << << i + 1, i + n >> >> \o PathChain(s, i + n + 1, sep, stops)

\* re.sub(r"/(?:[^/\s]+/)+([^/\s]+)", r"\1", message): a slash followed by two
\* or more components is replaced by the last of them.
RECURSIVE StripUnixPaths(_)
StripUnixPaths(message) ==
    LET chain(i) == PathChain(message, i, "/", {"/"})
        starts == {i \in 1..Len(message) : Len(chain(i)) >= 2}
        first(at) == CHOOSE i \in at : \A j \in at : i <= j
        cut(i, last) == SubSeq(message, 1, i - 1) \o SubSeq(message, last[1], last[2])
                            \o StripUnixPaths(From(message, last[2]))
        at(i) == cut(i, chain(i)[Len(chain(i))])
    IN  IF starts = {} THEN message ELSE at(first(starts))

\* re.sub(r"[A-Za-z]:\\(?:[^\\:\s]+\\)+([^\\:\s]+)", r"\1", message)
RECURSIVE StripWindowsPaths(_)
StripWindowsPaths(message) ==
    LET drive(i) == /\ i + 2 <= Len(message)
                    /\ \E k \in 1..26 : message[i] \in {UpperChars[k], LowerChars[k]}
                    /\ message[i + 1] = ":"
        chain(i) == IF drive(i) THEN PathChain(message, i + 2, "\\", {"\\", ":"}) ELSE << >>
        starts == {i \in 1..Len(message) : Len(chain(i)) >= 2}
        first(at) == CHOOSE i \in at : \A j \in at : i <= j
        cut(i, last) == SubSeq(message, 1, i - 1) \o SubSeq(message, last[1], last[2])
                            \o StripWindowsPaths(From(message, last[2]))
        at(i) == cut(i, chain(i)[Len(chain(i))])
    IN  IF starts = {} THEN message ELSE at(first(starts))

\* sanitize_error_message(message, max_content_length=50)
SanitizeErrorMessage(message) ==
    StripWindowsPaths(StripUnixPaths(ReplaceLongQuotes(message, MaxContentLength)))

\* ------------------------------------------------------ difflib.get_close_matches
\* SequenceMatcher(a=x, b=word).ratio() >= cutoff for cutoff = num / den, where
\* ratio is 2 * matches / (len(x) + len(word)), and 1 for two empty strings.
RECURSIVE SumSizes(_)
SumSizes(blocks) == IF Len(blocks) = 0 THEN 0 ELSE blocks[1][3] + SumSizes(Tail(blocks))

Matches(x, word) == SumSizes(MatchingBlocks(x, word, 0, Len(x), 0, Len(word)))

\* get_close_matches(word, possibilities, n=1, cutoff=0.6): the possibility
\* of the highest ratio among those that reach the cutoff, the greatest string
\* among equals; << >> when none reaches it, else a list of one.
GetCloseMatches(word, possibilities) ==
    LET total(x) == Len(x) + Len(word)
        close(x) == total(x) = 0 \/ 10 * Matches(x, word) >= 3 * total(x)
        \* ratio(x) < ratio(y), or the same ratio and x < y
        below(x, y) ==
            LET mx == IF total(x) = 0 THEN 1 ELSE 2 * Matches(x, word)
                tx == IF total(x) = 0 THEN 1 ELSE total(x)
                my == IF total(y) = 0 THEN 1 ELSE 2 * Matches(y, word)
                ty == IF total(y) = 0 THEN 1 ELSE total(y)
            IN  mx * ty < my * tx \/ (mx * ty = my * tx /\ StrLess(x, y))
        found == {possibilities[k] : k \in {j \in 1..Len(possibilities) : close(possibilities[j])}}
    IN  IF found = {} THEN << >>
        ELSE << CHOOSE x \in found : \A y \in found : ~below(x, y) >>

\* ------------------------------------------ validate._can_apply_patch's reasons
HunkRefersToLines ==
    << "H", "u", "n", "k", " ", "r", "e", "f", "e", "r", "s", " ", "t", "o", " ", "l",
       "i", "n", "e", "s", " " >>

ButFileOnlyHas ==
    << " ", "b", "u", "t", " ", "f", "i", "l", "e", " ", "o", "n", "l", "y", " ", "h",
       "a", "s", " " >>

LinesWord ==
    << " ", "l", "i", "n", "e", "s" >>

ContextMismatchAtLine ==
    << "C", "o", "n", "t", "e", "x", "t", " ", "m", "i", "s", "m", "a", "t", "c", "h",
       " ", "a", "t", " ", "l", "i", "n", "e", " " >>

ExpectedQuote ==
    << ":", " ", "e", "x", "p", "e", "c", "t", "e", "d", " ", "'" >>

ButFoundQuote ==
    << "'", " ", "b", "u", "t", " ", "f", "o", "u", "n", "d", " ", "'" >>

ContextMismatchLine ==
    << "C", "o", "n", "t", "e", "x", "t", " ", "m", "i", "s", "m", "a", "t", "c", "h",
       ":", " ", "l", "i", "n", "e", " ", "'" >>

NotFoundInFile ==
    << "'", " ", "n", "o", "t", " ", "f", "o", "u", "n", "d", " ", "i", "n", " ", "f",
       "i", "l", "e", " ", "a", "t", " ", "e", "x", "p", "e", "c", "t", "e", "d", " ",
       "p", "o", "s", "i", "t", "i", "o", "n" >>

\* The reason _can_apply_patch gives for a hunk it rejects (validate.py
\* 309-352): the window's bounds, or the first removed line that is not among
\* the window's lines with the window line closest to it, if any.
HunkReason(file_lines, hunk) ==
    LET start_line == hunk.source_start - 1
        end_line == start_line + hunk.source_count
        actual == [k \in 1..(end_line - start_line) |-> RStripNL(file_lines[start_line + k])]
        missing == CHOOSE r \in 1..Len(hunk.removed_lines) :
                       /\ ~InList(RStripNL(hunk.removed_lines[r]), actual)
                       /\ \A q \in 1..(r - 1) : InList(RStripNL(hunk.removed_lines[q]), actual)
        told(clean_removed, closest) ==
            IF Len(closest) > 0
            THEN SanitizeErrorMessage(
                     Concat(<< ContextMismatchAtLine, StrOfInt(hunk.source_start), ExpectedQuote,
                               clean_removed, ButFoundQuote, closest[1], << "'" >> >>))
            ELSE SanitizeErrorMessage(
                     Concat(<< ContextMismatchLine, clean_removed, NotFoundInFile >>))
        mismatch(clean_removed) == told(clean_removed, GetCloseMatches(clean_removed, actual))
    IN  IF start_line < 0 \/ end_line > Len(file_lines)
        THEN Concat(<< HunkRefersToLines, StrOfInt(hunk.source_start), << "-" >>,
                       StrOfInt(end_line), ButFileOnlyHas, StrOfNat(Len(file_lines)),
                       LinesWord >>)
        ELSE mismatch(RStripNL(hunk.removed_lines[missing]))

\* The "reason" of _can_apply_patch's answer when it is not can_apply: that of
\* the first hunk, in patch order, that it rejects.
CanApplyReason(file_lines, hunks) ==
    HunkReason(file_lines, hunks[FirstBadHunk(file_lines, hunks, 1)])

\* ------------------------------------------------------------- file system
\* Two bytes that are no text: a NUL byte, and a byte that is not valid UTF-8.
NUL == "<00>"
BAD == "<ff>"

\* The files of a session that tools are called on.
Files == {"f", "g"}

\* A backup path that leaves the timestamp out.
BackupPathUntimed(p, t) == p \o ".backup." \o ToString(1)

\* backup_file's backup path, f"{path}.backup.{timestamp}", the timestamp being
\* the clock's second.
BackupPath(p, t) == p \o ".backup." \o ToString(t)

BackupPaths == {BackupPath(p, t) : p \in Files, t \in 1..MaxClock}

\* The paths of the directory: the files, a symlink, a directory, a name with
\* nothing behind it, the temporary files of the tools, and the backups.
Paths == Files \cup {"tmp", "lnk", "d", "gone", "rtmp", "utmp"} \cup BackupPaths

NoEntry == [kind |-> "none", data |-> << >>, mode |-> "-", to |-> "-"]
DirEntry == [kind |-> "dir", data |-> << >>, mode |-> "0755", to |-> "-"]
FileEntry(data, mode) == [kind |-> "file", data |-> data, mode |-> mode, to |-> "-"]
LinkEntry(to) == [kind |-> "link", data |-> << >>, mode |-> "0777", to |-> to]

\* Where a path leads: a symlink is followed (one level), anything else is itself.
Resolve(files, p) == IF files[p].kind = "link" THEN files[p].to ELSE p

\* open(path, "r", encoding="utf-8") decoding: any byte that is not UTF-8 raises.
Decodes(data) == \A i \in 1..Len(data) : data[i] # BAD

\* Text-mode reading (universal newlines): "\r\n" and "\r" arrive as "\n".
ReadText(data) ==
    LET kept == {k \in 1..Len(data) : ~(data[k] = CR /\ k < Len(data) /\ data[k + 1] = NL)}
        at(j) == CHOOSE k \in kept : Cardinality({m \in kept : m < k}) = j - 1
        read(c) == IF c = CR THEN NL ELSE c
    IN  [j \in 1..Cardinality(kept) |-> read(data[at(j)])]

\* str.splitlines(keepends=True) on "\n", which is f.readlines() of the text.
RECURSIVE KeepEndsLines(_)
KeepEndsLines(text) ==
    LET k == IndexFrom(text, NL, 1)
    IN  IF Len(text) = 0 THEN << >>
        ELSE IF k = 0 THEN << text >>
        ELSE << SubSeq(text, 1, k) >> \o KeepEndsLines(From(text, k))

\* f.readlines() of a file opened in text mode.
ReadLines(data) == KeepEndsLines(ReadText(data))

\* Text-mode writing: "\n" leaves as os.linesep, "\r\n" on Windows.
RECURSIVE WriteText(_, _)
WriteText(text, plat) ==
    IF Len(text) = 0 THEN << >>
    ELSE IF Len(text) = 1
    THEN IF text[1] = NL /\ plat = "Windows" THEN << CR, NL >> ELSE text
    ELSE WriteText(SubSeq(text, 1, Len(text) \div 2), plat)
             \o WriteText(From(text, Len(text) \div 2), plat)

\* ---------------------------------------------------------- utils.is_binary_file
TextByte(c) == c \notin {NUL, BAD}

CountNonText(chunk) == Cardinality({k \in 1..Len(chunk) : ~TextByte(chunk[k])})

\* is_binary_file(path) on the file's bytes (all of them: the files here are
\* shorter than BINARY_CHECK_BYTES).
IsBinaryFile(chunk) ==
    IF Len(chunk) = 0 THEN FALSE
    ELSE IF \E i \in 1..Len(chunk) : chunk[i] = NUL THEN TRUE
    ELSE IF Decodes(chunk) THEN FALSE
    ELSE 10 * CountNonText(chunk) > 3 * Len(chunk)

\* A gate that asks whether the path is a symlink before it asks whether
\* anything is there.
ValidateFileSafetySymlinkFirst(st, check_write, check_space) ==
    IF st.is_symlink THEN "symlink_error"
    ELSE IF ~st.exists THEN "file_not_found"
    ELSE IF ~st.is_file THEN "io_error"
    ELSE IF st.binary THEN "binary_file"
    ELSE IF ~st.stat_ok THEN "io_error"
    ELSE IF st.size > MAX_FILE_SIZE THEN "resource_limit"
    ELSE IF check_write /\ ~st.writable THEN "permission_denied"
    ELSE IF check_space /\ ~st.du_ok THEN "io_error"
    ELSE IF check_space /\ st.free < MIN_FREE_SPACE THEN "disk_space_error"
    ELSE IF check_space /\ st.free < (st.size * 11) \div 10 THEN "disk_space_error"
    ELSE "none"

\* ------------------------------------------------------ utils.validate_file_safety
\* What the gate observes of a path: exists(), is_file(), is_symlink(),
\* is_binary_file(), stat().st_size, os.access(W_OK), disk_usage().free, and
\* whether stat() and disk_usage() raise.
ValidateFileSafety(st, check_write, check_space) ==
    IF ~st.exists THEN "file_not_found"
    ELSE IF ~st.is_file THEN "io_error"
    ELSE IF st.is_symlink THEN "symlink_error"
    ELSE IF st.binary THEN "binary_file"
    ELSE IF ~st.stat_ok THEN "io_error"
    ELSE IF st.size > MAX_FILE_SIZE THEN "resource_limit"
    ELSE IF check_write /\ ~st.writable THEN "permission_denied"
    ELSE IF check_space /\ ~st.du_ok THEN "io_error"
    ELSE IF check_space /\ st.free < MIN_FREE_SPACE THEN "disk_space_error"
    ELSE IF check_space /\ st.free < (st.size * 11) \div 10 THEN "disk_space_error"
    ELSE "none"

Writable(mode) == mode \in {"0644", "0755", "0600"}

\* The gate's observations of path p in file system files with free bytes free.
\* exists(), is_file(), os.access() and open() follow a symlink; is_symlink()
\* does not.
StatOf(files, free, p) ==
    LET q == Resolve(files, p)
    IN  [exists |-> files[q].kind # "none",
         is_file |-> files[q].kind = "file",
         is_symlink |-> files[p].kind = "link",
         binary |-> IsBinaryFile(files[q].data),
         stat_ok |-> TRUE,
         size |-> Len(files[q].data),
         writable |-> Writable(files[q].mode),
         du_ok |-> TRUE,
         free |-> free]

\* ------------------------------------------------------------------ inputs
Texts == {<< "a" >>, << "b" >>}

\* The files of Init: up to MaxLines lines, the last with or without its
\* newline, and two files that are no clean text.
TextLineSeqs == UNION {[1..k -> Texts] : k \in 0..MaxLines}

FileOf(ls, final_newline) ==
    LET all == Concat([i \in 1..Len(ls) |-> ls[i] \o << NL >>])
    IN  IF final_newline \/ Len(all) = 0 THEN all ELSE SubSeq(all, 1, Len(all) - 1)

TextFiles == {FileOf(ls, nl) : ls \in TextLineSeqs, nl \in BOOLEAN}

BinaryData == << NUL >>
UndecodableData == << BAD, "a", "a", "a", NL >>

FileDatas == TextFiles \cup {BinaryData, UndecodableData}

BodyLines == {<< t >> \o x : t \in {" ", "-", "+"}, x \in Texts}

Bodies == UNION {[1..k -> BodyLines] : k \in 0..MaxBody}

RECURSIVE CountTags(_, _)
CountTags(body, tags) ==
    IF Len(body) = 0 THEN 0
    ELSE (IF body[1][1] \in tags THEN 1 ELSE 0) + CountTags(Tail(body), tags)

SrcCount(body) == CountTags(body, {" ", "-"})
TgtCount(body) == CountTags(body, {" ", "+"})

\* One hunk under the file headers, its counts those of its body.  The target
\* start is the source start, or the line after it for a hunk that only adds
\* lines (the numbering GNU diff gives such a hunk).
SingleHunkPatches ==
    UNION {
        {PatchText(<< MinusHeader, PlusHeader,
                      HunkHeader(ss, SrcCount(body), ts, TgtCount(body)) >> \o body) :
            ts \in {ss} \cup (IF SrcCount(body) = 0 /\ Len(body) > 0 THEN {ss + 1} ELSE {})} :
        ss \in 0..(MaxLines + 1), body \in Bodies}

\* Two one-line hunks at different lines, in either order in the text; the
\* target start of the lower hunk allows for what the upper one adds or removes.
HunkPlaces == {pr \in (1..MaxLines) \X (1..MaxLines) : pr[1] # pr[2]}

Shift(l) == TgtCount(<< l >>) - SrcCount(<< l >>)

TwoHunkPatches ==
    {PatchText(<< MinusHeader, PlusHeader,
                  HunkHeader(pr[1], SrcCount(<< l1 >>),
                             IF pr[2] < pr[1] THEN pr[1] + Shift(l2) ELSE pr[1],
                             TgtCount(<< l1 >>)), l1,
                  HunkHeader(pr[2], SrcCount(<< l2 >>),
                             IF pr[1] < pr[2] THEN pr[2] + Shift(l1) ELSE pr[2],
                             TgtCount(<< l2 >>)), l2 >>) :
        pr \in HunkPlaces, l1 \in BodyLines, l2 \in BodyLines}

\* No text, blank text, and texts the parser has to refuse or to default.
EmptyPatch == << >>
BlankPatch == << " ", NL >>
PlusFirstPatch == PatchText(<< PlusHeader, MinusHeader, HunkHeader(1, 1, 1, 1), << "-", "a" >>, << "+", "b" >> >>)
NoHeaderPatch == PatchText(<< HunkHeader(1, 1, 1, 1), << "-", "a" >>, << "+", "b" >> >>)
OneWordHeaderPatch == PatchText(<< MinusHeader, PlusHeader, << "@", "@", " ", "-", "1", ",", "1", " ", "@", "@" >>, << "-", "a" >> >>)
BadNumberPatch == PatchText(<< MinusHeader, PlusHeader, << "@", "@", " ", "-", "a", ",", "1", " ", "+", "1", ",", "1", " ", "@", "@" >>, << "-", "a" >> >>)
ShortHeaderPatch == PatchText(<< MinusHeader, PlusHeader, ShortHunkHeader(1, 1), << "-", "a" >>, << "+", "b" >> >>)

SpecialPatches == {EmptyPatch, BlankPatch, PlusFirstPatch, NoHeaderPatch,
                   OneWordHeaderPatch, BadNumberPatch, ShortHeaderPatch}

Patches == SingleHunkPatches \cup TwoHunkPatches \cup SpecialPatches

\* ------------------------------------------------------------------- state
VARIABLES
    probe,           \* a call of validate_file_safety on its own: what it is given and returns
    platform,        \* platform.system(): "Unix" or "Windows"
    disk_free,       \* shutil.disk_usage(parent).free
    fs,              \* the directory: path -> entry
    patch,           \* the patch text of the session
    script,          \* the calls still to make, in order
    pc,              \* where the running call stands; "idle" between calls
    call,            \* the running call: the tool and its arguments
    file_lines,      \* validate_patch's file_lines
    original_lines,  \* apply_patch's original_lines
    modified_lines,  \* apply_patch's modified_lines
    result,          \* the dict the last call returned
    log,             \* the calls made so far, each with its result
    pre,             \* the directory when the running call began
    touched,         \* the paths whose content the running call has opened
    writes,          \* writes of the other process so far
    clock,           \* datetime.now(), in seconds
    wf               \* the locals of the running orchestration function

vars == << probe, platform, disk_free, fs, patch, script, pc, call, file_lines,
           original_lines, modified_lines, result, log, pre, touched, writes, clock, wf >>

NoProbe == [st |-> "-", check_write |-> FALSE, check_space |-> FALSE, error |-> "-"]

\* A request to call_tool: the tool's name and the dict of its arguments.
Request(name, arguments) == [name |-> name, arguments |-> arguments]

NoRequest == Request("none", << >>)

\* A Python bool where the callee expects a str.
Bool(b) == << IF b THEN "True" ELSE "False" >>

IsStr(value) == value \notin {Bool(TRUE), Bool(FALSE)}

\* A call: the tool and its arguments, those it does not take left empty, and
\* the call_tool request it came from, if any.
NoCall == [op |-> "-", path |-> "-", dry_run |-> FALSE, original_content |-> << >>,
           new_content |-> << >>, backup_file |-> "-", force |-> FALSE,
           modified_file |-> "-", context_lines |-> 3, request |-> NoRequest]

PatchCall(op, path, dry_run) == [NoCall EXCEPT !.op = op, !.path = path, !.dry_run = dry_run]

BackupCall(path) == [NoCall EXCEPT !.op = "backup", !.path = path]

UpdateCall(path, original_content, new_content, dry_run) ==
    [NoCall EXCEPT !.op = "update", !.path = path, !.dry_run = dry_run,
                   !.original_content = original_content, !.new_content = new_content]

\* restore_backup(backup_file, target_file, force); target_file "auto" is None.
RestoreCall(backup_file, target_file, force) ==
    [NoCall EXCEPT !.op = "restore", !.path = target_file, !.backup_file = backup_file,
                   !.force = force]

\* A patch tool called on the file "f".
Call(op, dry_run) == PatchCall(op, "f", dry_run)

\* parse_backup_filename: the original's path if the name is a backup's name,
\* None ("none") otherwise.
ParseBackupFilename(name) ==
    IF name \in BackupPaths
    THEN CHOOSE p \in Files : \E t \in 1..MaxClock : BackupPath(p, t) = name
    ELSE "none"

\* The path a call works on: restore_backup's target_file, given or detected.
TargetOf(c) ==
    IF c.op = "restore" /\ c.path = "auto" THEN ParseBackupFilename(c.backup_file)
    ELSE c.path

\* The entry at a call's target in the directory files.
EntryAt(files, c) == IF TargetOf(c) \in Paths THEN files[TargetOf(c)] ELSE NoEntry

NoChanges == [lines_added |-> 0, lines_removed |-> 0, hunks |-> 0]

\* raised: the exception the call ended with instead of returning a dict.
\* error: the text under "error" (under "reason" in validate_patch's dict) when
\* the Context Matcher rejected the patch; the other messages are left out.
\* affected_line_range: << start, end >> of the preview, << >> without one.
NoResult == [success |-> FALSE, error_type |-> "-", valid |-> "absent",
             can_apply |-> "absent", applied |-> FALSE, changes |-> NoChanges,
             raised |-> "none", error |-> << >>, affected_line_range |-> << >>]

\* A failure dict: success False and an error_type.
Failure(error_type) == [NoResult EXCEPT !.error_type = error_type]

\* The call raised an exception that no except clause of the tool catches.
Raised(exception) == [NoResult EXCEPT !.raised = exception]

\* A success dict of update_content or restore_backup (the diff text and its
\* counts, the sizes and the messages are left out).
Succeeded(applied) == [NoResult EXCEPT !.success = TRUE, !.error_type = "none",
                                       !.applied = applied]

\* ------------------------------------------------------ validate.validate_patch
\* The preview's affected_line_range (validate.py 133-139): << start, end >>.
AffectedRange(hunks) ==
    LET least(set) == CHOOSE n \in set : \A m \in set : n <= m
        most(set) == CHOOSE n \in set : \A m \in set : m <= n
        min_line == least({hunks[k].target_start : k \in 1..Len(hunks)})
        max_line == most({hunks[k].target_start + hunks[k].target_count - 1 :
                            k \in 1..Len(hunks)})
    IN  IF Len(hunks) > 0 THEN << min_line, Max2(max_line, min_line) >>
        ELSE << 1, 1 >>

\* validate_patch from its read of the file on (lines 96-170), on the bytes read.
ValidateContent(data, patch_text) ==
    LET parsed == ParsePatch(patch_text)
        verdict == CanApplyPatch(ReadLines(data), parsed.hunks)
        preview == [lines_added |-> parsed.lines_to_add,
                    lines_removed |-> parsed.lines_to_remove,
                    hunks |-> Len(parsed.hunks)]
    IN  IF ~Decodes(data) THEN Failure("encoding_error")
        ELSE IF ~parsed.valid THEN [Failure("invalid_patch") EXCEPT !.valid = "false"]
        ELSE IF verdict.can_apply
        THEN [success |-> TRUE, error_type |-> "none", valid |-> "true",
              can_apply |-> "true", applied |-> FALSE, changes |-> preview,
              raised |-> "none", error |-> << >>,
              affected_line_range |-> AffectedRange(parsed.hunks)]
        ELSE [success |-> FALSE, error_type |-> "context_mismatch", valid |-> "true",
              can_apply |-> "false", applied |-> FALSE, changes |-> preview,
              raised |-> "none",
              error |-> CanApplyReason(ReadLines(data), parsed.hunks),
              affected_line_range |-> AffectedRange(parsed.hunks)]

\* ------------------------------------------------------------ apply.apply_patch
\* The checks apply_patch asks of the safety gate: writability and free space,
\* unless the run is dry (apply.py 72-76).
ApplyChecksWrite(dry_run) == ~dry_run
ApplyChecksSpace(dry_run) == ~dry_run

\* An apply_patch that goes on to write whether the run is dry or not.
ApplyNextStepAlwaysWrites(validation, dry_run) ==
    IF ~validation.success THEN "fail" ELSE "write"

\* An apply_patch whose dry run reports success whatever validate_patch answered.
ApplyNextStepDryUnchecked(validation, dry_run) ==
    IF dry_run THEN "dry"
    ELSE IF ~validation.success THEN "fail"
    ELSE "write"

\* What apply_patch does with validate_patch's answer (apply.py 88-114): return
\* the failure, return the dry run's success, or go on to write.
ApplyNextStep(validation, dry_run) ==
    IF ~validation.success THEN "fail"
    ELSE IF dry_run THEN "dry"
    ELSE "write"

\* The dict apply_patch returns on success, from validate_patch's preview.
Applied(validation) ==
    [success |-> TRUE, error_type |-> "none", valid |-> "absent", can_apply |-> "absent",
     applied |-> TRUE, changes |-> validation.changes, raised |-> "none",
     error |-> << >>, affected_line_range |-> << >>]

ModifiedSincePatch ==
    << "C", "a", "n", "n", "o", "t", " ", "r", "e", "v", "e", "r", "t", ":", " ", "f",
       "i", "l", "e", " ", "h", "a", "s", " ", "b", "e", "e", "n", " ", "m", "o", "d",
       "i", "f", "i", "e", "d", " ", "s", "i", "n", "c", "e", " ", "p", "a", "t", "c",
       "h", " ", "w", "a", "s", " ", "a", "p", "p", "l", "i", "e", "d", ".", " " >>

\* The message revert_patch returns for the message error_msg of apply_patch
\* (revert.py 84-91): its note goes before a message that speaks of a context
\* or of a mismatch.
RevertError(error_msg) ==
    IF \/ Contains(Lower(error_msg), << "c", "o", "n", "t", "e", "x", "t" >>)
       \/ Contains(Lower(error_msg), << "m", "i", "s", "m", "a", "t", "c", "h" >>)
    THEN ModifiedSincePatch \o error_msg
    ELSE error_msg

\* The failure apply_patch returns when validate_patch refuses (apply.py
\* 88-96), and what revert_patch makes of it (revert.py 84-98).
Refused(op, validation) ==
    [Failure(validation.error_type) EXCEPT
        !.error = IF op = "revert" THEN RevertError(validation.error) ELSE validation.error]

\* The patch text apply_patch is given: revert_patch hands it the reversed text
\* (revert.py 64-68).
EffPatch == IF call.op = "revert" THEN ReversePatch(patch) ELSE patch

InCall == pc # "idle"

\* The temporary file of a call: apply_patch's tempfile.mktemp name,
\* update_content's path + ".tmp", restore_backup's ".{name}.tmp.{pid}".
TempOf(c) ==
    IF c.op = "update" THEN "utmp"
    ELSE IF c.op = "restore" THEN "rtmp"
    ELSE "tmp"

\* The dict a call returns once its temporary file has replaced the target.
Replaced(c, validation) ==
    IF c.op \in {"apply", "revert"} THEN Applied(validation) ELSE Succeeded(TRUE)

\* The first step of a tool.
FirstStep(op) ==
    IF op = "validate" THEN "v_safety"
    ELSE IF op = "backup" THEN "b_safety"
    ELSE IF op = "update" THEN "u_safety"
    ELSE IF op = "restore" THEN "r_check"
    ELSE IF op = "generate" THEN "g_safety"
    ELSE "a_safety"

\* The call returns res: revert_patch renames the keys of apply_patch's dict
\* and keeps its outcome (revert.py 70-98).
Finish(res, files) ==
    /\ result' = res
    /\ pc' = "idle"
    /\ log' = Append(log, [op |-> call.op, dry_run |-> call.dry_run, result |-> res,
                           at |-> pc, before |-> EntryAt(pre, call),
                           after |-> EntryAt(files, call), call |-> call,
                           patch |-> patch, now |-> clock])

\* A tool is called.
Begin ==
    /\ pc = "idle"
    /\ Len(script) > 0
    /\ Len(log) < MaxCalls
    /\ call' = Head(script)
    /\ script' = Tail(script)
    /\ pc' = FirstStep(Head(script).op)
    /\ pre' = fs
    /\ touched' = {}
    /\ file_lines' = << >>
    /\ original_lines' = << >>
    /\ modified_lines' = << >>
    /\ UNCHANGED << clock, wf, probe, platform, disk_free, fs, patch, result, log, writes >>

\* The gate opens the file (for is_binary_file) once it is known to be a
\* regular file that is no symlink.
GateOpens(st) == st.exists /\ st.is_file /\ ~st.is_symlink

\* A tool's call of the safety gate: the error is returned, or the tool goes on
\* to its step next.
Gate(check_write, check_space, next) ==
    LET st == StatOf(fs, disk_free, call.path)
        err == ValidateFileSafety(st, check_write, check_space)
    IN  /\ touched' = IF GateOpens(st) THEN touched \cup {Resolve(fs, call.path)} ELSE touched
        /\ IF err # "none"
           THEN Finish(Failure(err), fs)
           ELSE /\ pc' = next
                /\ UNCHANGED << result, log >>
        /\ UNCHANGED << clock, wf, probe, platform, disk_free, fs, patch, script, call, file_lines,
                        original_lines, modified_lines, pre, writes >>

\* apply_patch's safety gate (apply.py 72-83).
ApplySafety ==
    /\ pc = "a_safety"
    /\ Gate(ApplyChecksWrite(call.dry_run), ApplyChecksSpace(call.dry_run), "v_safety")

\* validate_patch's own safety gate (validate.py 87-94).
ValidateSafety ==
    /\ pc = "v_safety"
    /\ Gate(FALSE, FALSE, "v_read")

\* validate_patch reads the file and answers (validate.py 96-170); apply_patch
\* takes the answer (apply.py 85-114).
ValidateRead ==
    /\ pc = "v_read"
    /\ LET q == Resolve(fs, call.path)
           validation == ValidateContent(fs[q].data, EffPatch)
           step == ApplyNextStep(validation, call.dry_run)
       IN  /\ touched' = touched \cup {q}
           /\ file_lines' = IF Decodes(fs[q].data) THEN ReadLines(fs[q].data) ELSE << >>
           /\ IF call.op = "validate" THEN Finish(validation, fs)
              ELSE IF step = "fail" THEN Finish(Refused(call.op, validation), fs)
              ELSE IF step = "dry" THEN Finish(Applied(validation), fs)
              ELSE /\ result' = validation
                   /\ pc' = "a_read"
                   /\ UNCHANGED log
    /\ UNCHANGED << clock, wf, probe, platform, disk_free, fs, patch, script, call, original_lines,
                    modified_lines, pre, writes >>

\* apply_patch reads the file again and splices the hunks (apply.py 117-123).
ApplyRead ==
    /\ pc = "a_read"
    /\ LET q == Resolve(fs, call.path)
       IN  /\ touched' = touched \cup {q}
           /\ IF fs[q].kind # "file"
              THEN /\ Finish(Failure("io_error"), fs)
                   /\ UNCHANGED << original_lines, modified_lines >>
              ELSE IF ~Decodes(fs[q].data)
              THEN /\ Finish(Failure("encoding_error"), fs)
                   /\ UNCHANGED << original_lines, modified_lines >>
              ELSE IF ParsePatchHunks(EffPatch).raised
              THEN /\ Finish(Failure("io_error"), fs)
                   /\ original_lines' = ReadLines(fs[q].data)
                   /\ UNCHANGED modified_lines
              ELSE /\ original_lines' = ReadLines(fs[q].data)
                   /\ modified_lines' = ApplyPatchToLines(ReadLines(fs[q].data), EffPatch)
                   /\ pc' = "a_write"
                   /\ UNCHANGED << result, log >>
    /\ UNCHANGED << clock, wf, probe, platform, disk_free, fs, patch, script, call, file_lines,
                    pre, writes >>

\* The temporary file is written (apply.py 125-129).
ApplyWriteTemp ==
    /\ pc = "a_write"
    /\ fs' = [fs EXCEPT ![TempOf(call)] =
                 FileEntry(WriteText(Concat(modified_lines), platform), "0644")]
    /\ touched' = touched \cup {TempOf(call)}
    /\ pc' = "replace"
    /\ UNCHANGED << clock, wf, probe, platform, disk_free, patch, script, call, file_lines, original_lines,
                    modified_lines, result, log, pre, writes >>

\* Writing the temporary file raises OSError: the except clause unlinks what
\* was written and apply_patch returns io_error (apply.py 134-138, 156-163).
ApplyWriteTempFails ==
    /\ pc = "a_write"
    /\ Finish(Failure("io_error"), fs)
    /\ UNCHANGED << clock, wf, probe, platform, disk_free, fs, patch, script, call, file_lines,
                    original_lines, modified_lines, pre, touched, writes >>

\* ------------------------------------------------------------ backup.backup_file
\* backup_file's safety gate (backup.py 57-60).
BackupSafety ==
    /\ pc = "b_safety"
    /\ Gate(FALSE, FALSE, "b_copy")

\* The errors backup_file and restore_backup make of an exception while they
\* copy or rename: PermissionError, OSError for lack of space, any other.
CopyErrors == {"permission_denied", "disk_space_error", "io_error"}

\* backup_file checks the free space and copies the file to its backup path
\* (backup.py 68-133); the directory is there and can be written.
BackupCopy ==
    /\ pc = "b_copy"
    /\ LET q == Resolve(fs, call.path)
           low == \/ disk_free < MIN_FREE_SPACE
                  \/ disk_free < (Len(fs[q].data) * 11) \div 10
       IN  IF low
           THEN /\ Finish(Failure("disk_space_error"), fs)
                /\ UNCHANGED << fs, touched >>
           ELSE /\ fs' = [fs EXCEPT ![BackupPath(call.path, clock)] = fs[q]]
                /\ touched' = touched \cup {q, BackupPath(call.path, clock)}
                /\ Finish(Succeeded(FALSE), fs')
    /\ UNCHANGED << clock, wf, probe, platform, disk_free, patch, script, call, file_lines,
                    original_lines, modified_lines, pre, writes >>

\* shutil.copy2 raises (backup.py 135-164).
BackupCopyFails ==
    /\ pc = "b_copy"
    /\ disk_free >= MIN_FREE_SPACE
    /\ \E err \in CopyErrors : Finish(Failure(err), fs)
    /\ UNCHANGED << clock, wf, probe, platform, disk_free, fs, patch, script, call, file_lines,
                    original_lines, modified_lines, pre, touched, writes >>

\* -------------------------------------------------------- update.update_content
\* update_content's safety gate (update.py 95-98).
UpdateSafety ==
    /\ pc = "u_safety"
    /\ Gate(TRUE, TRUE, "u_read")

\* update_content reads the file, compares it with original_content and
\* returns where nothing is to be written (update.py 100-188);
\* new_content.splitlines (update.py 147) raises if new_content is no str.
UpdateRead ==
    /\ pc = "u_read"
    /\ LET q == Resolve(fs, call.path)
       IN  /\ touched' = touched \cup {q}
           /\ IF ~Decodes(fs[q].data) THEN Finish(Failure("encoding_error"), fs)
              ELSE IF ReadText(fs[q].data) # call.original_content
              THEN Finish(Failure("content_mismatch"), fs)
              ELSE IF ~IsStr(call.new_content)
              THEN Finish(Raised("AttributeError"), fs)
              ELSE IF call.original_content = call.new_content
              THEN Finish(Succeeded(FALSE), fs)
              ELSE IF call.dry_run THEN Finish(Succeeded(FALSE), fs)
              ELSE /\ pc' = "u_write"
                   /\ UNCHANGED << result, log >>
    /\ UNCHANGED << clock, wf, probe, platform, disk_free, fs, patch, script, call, file_lines,
                    original_lines, modified_lines, pre, writes >>

\* One element of a str that utf-8 cannot encode: the lone surrogate U+DC80.
LoneSurrogate == "U+DC80"

\* text.encode("utf-8") succeeds: what f.write(text) needs on a file opened
\* with encoding="utf-8" (update.py 193-194).
Encodes(text) == \A k \in 1..Len(text) : text[k] # LoneSurrogate

\* open(temp_path, "w") has made the temporary file and f.write(new_content)
\* raises UnicodeEncodeError, which is no OSError: the `except Exception`
\* clause returns io_error and unlinks nothing (update.py 192-194, 229-236).
UpdateWriteTempRaises ==
    /\ pc = "u_write"
    /\ ~Encodes(call.new_content)
    /\ fs' = [fs EXCEPT ![TempOf(call)] = FileEntry(<< >>, "0644")]
    /\ touched' = touched \cup {TempOf(call)}
    /\ Finish(Failure("io_error"), fs')
    /\ UNCHANGED << clock, wf, probe, platform, disk_free, patch, script, call, file_lines,
                    original_lines, modified_lines, pre, writes >>

\* new_content is written to the temporary file (update.py 192-195).
UpdateWriteTemp ==
    /\ pc = "u_write"
    /\ Encodes(call.new_content)
    /\ fs' = [fs EXCEPT ![TempOf(call)] = FileEntry(WriteText(call.new_content, platform), "0644")]
    /\ touched' = touched \cup {TempOf(call)}
    /\ pc' = "replace"
    /\ UNCHANGED << clock, wf, probe, platform, disk_free, patch, script, call, file_lines, original_lines,
                    modified_lines, result, log, pre, writes >>

\* Writing the temporary file raises OSError (update.py 213-227).
UpdateWriteTempFails ==
    /\ pc = "u_write"
    /\ Finish(Failure("io_error"), fs)
    /\ UNCHANGED << clock, wf, probe, platform, disk_free, fs, patch, script, call, file_lines,
                    original_lines, modified_lines, pre, touched, writes >>

\* -------------------------------------------------------- generate.generate_patch
\* generate_patch(original_file, modified_file, context_lines)
GenerateCall(original_file, modified_file, context_lines) ==
    [NoCall EXCEPT !.op = "generate", !.path = original_file,
                   !.modified_file = modified_file, !.context_lines = context_lines]

\* The safety gate on the original and then on the modified file
\* (generate.py 64-75).
GenerateSafety ==
    /\ pc = "g_safety"
    /\ LET st1 == StatOf(fs, disk_free, call.path)
           st2 == StatOf(fs, disk_free, call.modified_file)
           err1 == ValidateFileSafety(st1, FALSE, FALSE)
           err2 == ValidateFileSafety(st2, FALSE, FALSE)
           err == IF err1 # "none" THEN err1 ELSE err2
       IN  /\ touched' = touched
                  \cup (IF GateOpens(st1) THEN {Resolve(fs, call.path)} ELSE {})
                  \cup (IF err1 = "none" /\ GateOpens(st2)
                        THEN {Resolve(fs, call.modified_file)} ELSE {})
           /\ IF err # "none"
              THEN Finish(Failure(err), fs)
              ELSE /\ pc' = "g_read"
                   /\ UNCHANGED << result, log >>
    /\ UNCHANGED << clock, wf, probe, platform, disk_free, fs, patch, script, call, file_lines,
                    original_lines, modified_lines, pre, writes >>

\* Both files are read and compared (generate.py 77-158); the session's caller
\* holds the patch text of the returned dict from here on.
GenerateRead ==
    /\ pc = "g_read"
    /\ LET a == fs[Resolve(fs, call.path)].data
           b == fs[Resolve(fs, call.modified_file)].data
           returns(diff_lines) ==
               /\ patch' = JoinDiff(diff_lines)
               /\ Finish([Succeeded(FALSE) EXCEPT !.changes = DiffChanges(diff_lines)], fs)
       IN  /\ touched' = touched \cup {Resolve(fs, call.path)}
                  \cup (IF Decodes(a) THEN {Resolve(fs, call.modified_file)} ELSE {})
           /\ IF ~Decodes(a) \/ ~Decodes(b)
              THEN /\ Finish(Failure("encoding_error"), fs)
                   /\ UNCHANGED << patch, original_lines, modified_lines >>
              ELSE /\ original_lines' = ReadLines(a)
                   /\ modified_lines' = ReadLines(b)
                   /\ returns(UnifiedDiff(ReadLines(a), ReadLines(b), call.path,
                                          call.modified_file, call.context_lines))
    /\ UNCHANGED << clock, wf, probe, platform, disk_free, fs, script, call, file_lines,
                    pre, writes >>

\* --------------------------------------------------------- backup.restore_backup
Readable(mode) == mode \in {"0644", "0755", "0600", "0444"}

\* The checks of restore_backup before it copies (backup.py 252-365): the error
\* of the first that fails, "none" if none does.  The directory is there and
\* can be written.
RestoreRefusal(files, free, c) ==
    LET b == Resolve(files, c.backup_file)
        t == TargetOf(c)
    IN  IF files[b].kind = "none" THEN "file_not_found"
        ELSE IF files[b].kind # "file" THEN "io_error"
        ELSE IF ~Readable(files[b].mode) THEN "permission_denied"
        ELSE IF t = "none" THEN "io_error"
        ELSE IF files[Resolve(files, t)].kind # "none" /\ files[t].kind = "link"
        THEN "symlink_error"
        ELSE IF files[Resolve(files, t)].kind # "none"
                /\ ~Writable(files[Resolve(files, t)].mode)
        THEN "permission_denied"
        ELSE IF free < MIN_FREE_SPACE THEN "disk_space_error"
        ELSE IF free < (Len(files[b].data) * 11) \div 10 THEN "disk_space_error"
        ELSE "none"

\* restore_backup checks the backup, the target and the free space
\* (backup.py 252-378; the times of modification only change the message).
RestoreCheck ==
    /\ pc = "r_check"
    /\ LET err == RestoreRefusal(fs, disk_free, call)
       IN  IF err # "none"
           THEN Finish(Failure(err), fs)
           ELSE /\ pc' = "r_copy"
                /\ UNCHANGED << result, log >>
    /\ UNCHANGED << clock, wf, probe, platform, disk_free, fs, patch, script, call, file_lines,
                    original_lines, modified_lines, pre, touched, writes >>

\* The backup is copied to the temporary file (backup.py 383-387).
RestoreCopy ==
    /\ pc = "r_copy"
    /\ fs' = [fs EXCEPT ![TempOf(call)] = fs[Resolve(fs, call.backup_file)]]
    /\ touched' = touched \cup {Resolve(fs, call.backup_file), TempOf(call)}
    /\ pc' = "replace"
    /\ UNCHANGED << clock, wf, probe, platform, disk_free, patch, script, call, file_lines, original_lines,
                    modified_lines, result, log, pre, writes >>

\* shutil.copy2 raises; the finally clause unlinks the temporary file
\* (backup.py 403-440).
RestoreCopyFails ==
    /\ pc = "r_copy"
    /\ \E err \in CopyErrors : Finish(Failure(err), fs)
    /\ UNCHANGED << clock, wf, probe, platform, disk_free, fs, patch, script, call, file_lines,
                    original_lines, modified_lines, pre, touched, writes >>

\* ----------------------------------------------------- utils.atomic_file_replace
\* The directory after source.rename(target).
Renamed(files, source, target) == [files EXCEPT ![target] = files[source], ![source] = NoEntry]

\* atomic_file_replace on Unix: one rename of the temporary file onto the
\* target, which replaces a symlink there and raises on a directory
\* (utils.py 231-233).
ReplaceUnix ==
    /\ pc = "replace"
    /\ platform = "Unix"
    /\ fs[TargetOf(call)].kind # "dir"
    /\ fs' = Renamed(fs, TempOf(call), TargetOf(call))
    /\ Finish(Replaced(call, result), fs')
    /\ UNCHANGED << clock, wf, probe, platform, disk_free, patch, script, call, file_lines, original_lines,
                    modified_lines, pre, touched, writes >>

\* atomic_file_replace on Windows, first half: the target, if target.exists(),
\* is unlinked (utils.py 226-229).
ReplaceWindowsUnlink ==
    /\ pc = "replace"
    /\ platform = "Windows"
    /\ fs[TargetOf(call)].kind # "dir"
    /\ fs' = IF fs[Resolve(fs, TargetOf(call))].kind # "none"
             THEN [fs EXCEPT ![TargetOf(call)] = NoEntry]
             ELSE fs
    /\ pc' = "rename"
    /\ UNCHANGED << clock, wf, probe, platform, disk_free, patch, script, call, file_lines, original_lines,
                    modified_lines, result, log, pre, touched, writes >>

\* atomic_file_replace on Windows, second half: the rename, which raises if
\* something is at the target (utils.py 230).
ReplaceWindowsRename ==
    /\ pc = "rename"
    /\ fs[TargetOf(call)].kind = "none"
    /\ fs' = Renamed(fs, TempOf(call), TargetOf(call))
    /\ Finish(Replaced(call, result), fs')
    /\ UNCHANGED << clock, wf, probe, platform, disk_free, patch, script, call, file_lines, original_lines,
                    modified_lines, pre, touched, writes >>

\* The errors a tool makes of an exception in atomic_file_replace.
ReplaceErrors(op) == IF op = "restore" THEN CopyErrors ELSE {"io_error"}

\* unlink() or rename() raises OSError: the tool unlinks the temporary file and
\* returns the error (apply.py 134-138 and 156-163, update.py 213-227,
\* backup.py 403-440).
ReplaceFails ==
    /\ pc \in {"replace", "rename"}
    /\ fs' = [fs EXCEPT ![TempOf(call)] = NoEntry]
    /\ \E err \in ReplaceErrors(call.op) : Finish(Failure(err), fs')
    /\ UNCHANGED << clock, wf, probe, platform, disk_free, patch, script, call, file_lines, original_lines,
                    modified_lines, pre, touched, writes >>

\* The dict an orchestration function returns: success, phase (of
\* apply_patches_atomic; "-" where there is none), the count of patches
\* applied, rolled_back or rollback_performed, and reverted ("absent" where the
\* dict has no such key).
WfRet(success, phase, applied, rollback, reverted) ==
    [success |-> success, phase |-> phase, applied |-> applied, rollback |-> rollback,
     reverted |-> reverted]

\* The function has not returned.
NoRet == WfRet(FALSE, "none", 0, "absent", "absent")

\* ------------------------------------------- recovery.py and workflows.py
\* No orchestration function is running.  The locals of one: the list it was
\* given, the loop it is in and the index there, whether a tool it called has
\* yet to return, its backups dict, its list of what it applied, a flag
\* (rollback_performed; a validation failed), the dict it returned, and the
\* directory as it was when it was called.
NoWf == [fn |-> "none", items |-> << >>, phase |-> "-", i |-> 0, waiting |-> FALSE,
         backups |-> << >>, applied |-> << >>, flag |-> FALSE, ret |-> NoRet, before |-> << >>]

\* An orchestration function is called with a list of (file_path, patch) pairs
\* (apply_patches_with_revert: one file_path, a list of patches).
WfStart(fn, items, files) ==
    [NoWf EXCEPT !.fn = fn, !.items = items, !.phase = "enter", !.before = files]

\* backups[file_path] = backup_file on a dict kept as a list of pairs.
DictSet(d, k, v) ==
    IF \E n \in 1..Len(d) : d[n][1] = k
    THEN [n \in 1..Len(d) |-> IF d[n][1] = k THEN << k, v >> ELSE d[n]]
    ELSE Append(d, << k, v >>)

\* The directory after Path(backup_path).unlink() for every value of backups.
Unlinked(files, backups) ==
    [p \in Paths |-> IF \E n \in 1..Len(backups) : backups[n][2] = p THEN NoEntry ELSE files[p]]

\* The loop an orchestration function begins with.
FirstPhase(fn) ==
    IF fn = "batch" THEN "backup" ELSE IF fn = "atomic" THEN "validate" ELSE "apply"

\* The tool call the function makes next in its loop.
WfCallOf(w) ==
    IF w.phase = "validate" THEN PatchCall("validate", w.items[w.i][1], FALSE)
    ELSE IF w.phase = "backup" THEN BackupCall(w.items[w.i][1])
    ELSE IF w.phase = "apply" THEN PatchCall("apply", w.items[w.i][1], FALSE)
    ELSE IF w.phase = "revert" THEN PatchCall("revert", w.items[1][1], FALSE)
    ELSE RestoreCall(w.backups[w.i][2], "auto", FALSE)

\* The patch text handed to that call: the pair's patch, or in the revert loop
\* reversed(applied_patches)[i].
WfPatchOf(w) ==
    IF w.phase \in {"validate", "apply"} THEN w.items[w.i][2]
    ELSE IF w.phase = "revert" THEN w.applied[Len(w.applied) - w.i + 1]
    ELSE EmptyPatch

\* The function is entered: an empty list returns success at once
\* (recovery.py 277-291, workflows.py 72-79 and 313-318).
WfEnter ==
    /\ pc = "idle"
    /\ wf.phase = "enter"
    /\ wf' = IF Len(wf.items) = 0
             THEN [wf EXCEPT !.phase = "done",
                             !.ret = WfRet(TRUE, "-", 0, IF wf.fn = "batch" THEN "false" ELSE "absent",
                                           "absent")]
             ELSE [wf EXCEPT !.phase = FirstPhase(wf.fn), !.i = 1]
    /\ UNCHANGED << clock, probe, platform, disk_free, fs, patch, script, pc, call, file_lines,
                    original_lines, modified_lines, result, log, pre, touched, writes >>

\* The function calls the next tool of its loop.
WfCall ==
    /\ pc = "idle"
    /\ wf.phase \in {"validate", "backup", "apply", "rollback", "emergency", "revert"}
    /\ ~wf.waiting
    /\ call' = WfCallOf(wf)
    /\ patch' = WfPatchOf(wf)
    /\ pc' = FirstStep(WfCallOf(wf).op)
    /\ pre' = fs
    /\ touched' = {}
    /\ file_lines' = << >>
    /\ original_lines' = << >>
    /\ modified_lines' = << >>
    /\ wf' = [wf EXCEPT !.waiting = TRUE]
    /\ UNCHANGED << clock, probe, platform, disk_free, fs, script, result, log, writes >>

\* The backup_file path in the dict the last backup_file call returned.
LastBackup == BackupPath(call.path, log[Len(log)].now)

\* batch_apply_patches goes on with the dict res of the tool it called
\* (recovery.py 293-384).
BatchAfter(w, res) ==
    LET path == w.items[w.i][1]
        more == w.i < Len(w.items)
    IN  IF w.phase = "backup" THEN
            IF ~res.success THEN [w EXCEPT !.ret = WfRet(FALSE, "-", 0, "false", "absent")]
            ELSE IF more THEN [w EXCEPT !.backups = DictSet(@, path, LastBackup), !.i = @ + 1]
            ELSE [w EXCEPT !.backups = DictSet(@, path, LastBackup), !.phase = "apply", !.i = 1]
        ELSE IF w.phase = "apply" THEN
            IF ~res.success THEN [w EXCEPT !.phase = "rollback", !.i = 1]
            ELSE IF more THEN [w EXCEPT !.applied = Append(@, path), !.i = @ + 1]
            ELSE [w EXCEPT !.applied = Append(@, path),
                           !.ret = WfRet(TRUE, "-", Len(w.applied) + 1, "false", "absent")]
        ELSE IF w.i < Len(w.backups)
        THEN [w EXCEPT !.flag = @ \/ res.success, !.i = @ + 1]
        ELSE [w EXCEPT !.flag = @ \/ res.success,
                       !.ret = WfRet(FALSE, "-", Len(w.applied),
                                     IF w.flag \/ res.success THEN "true" ELSE "false", "absent")]

\* The tool returns to batch_apply_patches; when the function returns it has
\* unlinked every backup of its dict (recovery.py 297-302, 348-353, 368-373).
BatchReturn ==
    /\ pc = "idle"
    /\ wf.fn = "batch"
    /\ wf.waiting
    /\ LET next == BatchAfter(wf, result)
       IN  /\ wf' = [next EXCEPT !.waiting = FALSE,
                                 !.phase = IF next.ret # NoRet THEN "done" ELSE @]
           /\ fs' = IF next.ret # NoRet THEN Unlinked(fs, next.backups) ELSE fs
    /\ UNCHANGED << clock, probe, platform, disk_free, patch, script, pc, call, file_lines,
                    original_lines, modified_lines, result, log, pre, touched, writes >>

\* apply_patches_atomic goes on with the dict res of the tool it called
\* (workflows.py 320-422): a failed backup raises, and the except clause
\* restores the backups taken so far.
AtomicAfter(w, res) ==
    LET path == w.items[w.i][1]
        more == w.i < Len(w.items)
        refused == w.flag \/ res.can_apply # "true"
    IN  IF w.phase = "validate" THEN
            IF more THEN [w EXCEPT !.flag = refused, !.i = @ + 1]
            ELSE IF refused
            THEN [w EXCEPT !.flag = refused,
                           !.ret = WfRet(FALSE, "validation", 0, "absent", "absent")]
            ELSE [w EXCEPT !.phase = "backup", !.i = 1]
        ELSE IF w.phase = "backup" THEN
            IF ~res.success THEN
                IF Len(w.backups) = 0
                THEN [w EXCEPT !.ret = WfRet(FALSE, "unexpected", 0, "absent", "absent")]
                ELSE [w EXCEPT !.phase = "emergency", !.i = 1]
            ELSE IF more THEN [w EXCEPT !.backups = DictSet(@, path, LastBackup), !.i = @ + 1]
            ELSE [w EXCEPT !.backups = DictSet(@, path, LastBackup), !.phase = "apply", !.i = 1]
        ELSE IF w.phase = "apply" THEN
            IF ~res.success THEN [w EXCEPT !.phase = "rollback", !.i = 1]
            ELSE IF more THEN [w EXCEPT !.applied = Append(@, path), !.i = @ + 1]
            ELSE [w EXCEPT !.applied = Append(@, path),
                           !.ret = WfRet(TRUE, "-", Len(w.applied) + 1, "absent", "absent")]
        ELSE IF w.i < Len(w.backups) THEN [w EXCEPT !.i = @ + 1]
        ELSE IF w.phase = "rollback"
        THEN [w EXCEPT !.ret = WfRet(FALSE, "apply", Len(w.applied), "true", "absent")]
        ELSE [w EXCEPT !.ret = WfRet(FALSE, "unexpected", 0, "absent", "absent")]

\* The tool returns to apply_patches_atomic; the backups are unlinked when
\* every patch has been applied (workflows.py 390-395).
AtomicReturn ==
    /\ pc = "idle"
    /\ wf.fn = "atomic"
    /\ wf.waiting
    /\ LET next == AtomicAfter(wf, result)
       IN  /\ wf' = [next EXCEPT !.waiting = FALSE,
                                 !.phase = IF next.ret # NoRet THEN "done" ELSE @]
           /\ fs' = IF next.ret # NoRet /\ next.ret.success THEN Unlinked(fs, next.backups)
                    ELSE fs
    /\ UNCHANGED << clock, probe, platform, disk_free, patch, script, pc, call, file_lines,
                    original_lines, modified_lines, result, log, pre, touched, writes >>

\* apply_patches_with_revert goes on with the dict res of the tool it called
\* (workflows.py 81-130): a failed revert raises, and the except clause returns
\* reverted False.
RevertAfter(w, res) ==
    LET n == Len(w.applied)
    IN  IF w.phase = "apply" THEN
            IF ~res.success THEN
                IF n = 0 THEN [w EXCEPT !.ret = WfRet(FALSE, "-", 0, "absent", "true")]
                ELSE [w EXCEPT !.phase = "revert", !.i = 1]
            ELSE IF w.i < Len(w.items)
            THEN [w EXCEPT !.applied = Append(@, w.items[w.i][2]), !.i = @ + 1]
            ELSE [w EXCEPT !.applied = Append(@, w.items[w.i][2]),
                           !.ret = WfRet(TRUE, "-", n + 1, "absent", "absent")]
        ELSE IF ~res.success THEN [w EXCEPT !.ret = WfRet(FALSE, "-", n, "absent", "false")]
        ELSE IF w.i < n THEN [w EXCEPT !.i = @ + 1]
        ELSE [w EXCEPT !.ret = WfRet(FALSE, "-", n, "absent", "true")]

\* The tool returns to apply_patches_with_revert.
RevertReturn ==
    /\ pc = "idle"
    /\ wf.fn = "with_revert"
    /\ wf.waiting
    /\ LET next == RevertAfter(wf, result)
       IN  wf' = [next EXCEPT !.waiting = FALSE,
                              !.phase = IF next.ret # NoRet THEN "done" ELSE @]
    /\ UNCHANGED << clock, probe, platform, disk_free, fs, patch, script, pc, call, file_lines,
                    original_lines, modified_lines, result, log, pre, touched, writes >>

\* Another process rewrites the target while a call is running.
Writer ==
    /\ InCall
    /\ writes < MaxWrites
    /\ \E data \in TextFiles : fs' = [fs EXCEPT ![call.path] = FileEntry(data, "0644")]
    /\ writes' = writes + 1
    /\ UNCHANGED << clock, wf, probe, platform, disk_free, patch, script, pc, call, file_lines,
                    original_lines, modified_lines, result, log, pre, touched >>

\* A second passes between two calls.
Tick ==
    /\ pc = "idle"
    /\ clock < MaxClock
    /\ clock' = clock + 1
    /\ UNCHANGED << wf, probe, platform, disk_free, fs, patch, script, pc, call, file_lines,
                    original_lines, modified_lines, result, log, pre, touched, writes >>

\* ---------------------------------------------------------- server.call_tool
\* arguments.get(key, default)
Get(arguments, key, default) == IF key \in DOMAIN arguments THEN arguments[key] ELSE default

\* The call call_tool makes for a request (server.py 253-281); restore_backup's
\* target_file None is "auto".
CallToolCall(name, arguments) ==
    IF name = "apply_patch"
    THEN PatchCall("apply", arguments.file_path, Get(arguments, "dry_run", FALSE))
    ELSE IF name = "validate_patch" THEN PatchCall("validate", arguments.file_path, FALSE)
    ELSE IF name = "backup_file" THEN BackupCall(arguments.file_path)
    ELSE IF name = "restore_backup"
    THEN RestoreCall(arguments.backup_file, Get(arguments, "target_file", "auto"),
                     Get(arguments, "force", FALSE))
    ELSE IF name = "update_content"
    THEN UpdateCall(arguments.file_path, arguments.original_content,
                    Bool(Get(arguments, "dry_run", FALSE)), FALSE)
    ELSE [NoCall EXCEPT !.op = "unknown"]

\* call_tool takes a request and calls the tool of that name.
CallTool ==
    /\ pc = "idle"
    /\ Len(script) > 0
    /\ LET req == Head(script)
           made == CallToolCall(req.name, req.arguments)
       IN  /\ call' = [made EXCEPT !.request = req]
           /\ patch' = Get(req.arguments, "patch", patch)
           /\ pc' = IF made.op = "unknown" THEN "unknown" ELSE FirstStep(made.op)
    /\ script' = Tail(script)
    /\ pre' = fs
    /\ touched' = {}
    /\ file_lines' = << >>
    /\ original_lines' = << >>
    /\ modified_lines' = << >>
    /\ UNCHANGED << clock, wf, probe, platform, disk_free, fs, result, log, writes >>

\* call_tool knows no tool of that name and raises ValueError (server.py 280-281).
CallToolUnknown ==
    /\ pc = "unknown"
    /\ Finish(Raised("ValueError"), fs)
    /\ UNCHANGED << clock, wf, probe, platform, disk_free, fs, patch, script, call, file_lines,
                    original_lines, modified_lines, pre, touched, writes >>

\* ------------------------------------------------------------------- models.py
\* The values of the enumeration ErrorType (models.py 34-43).
ErrorType ==
    {"file_not_found", "permission_denied", "invalid_patch", "context_mismatch",
     "encoding_error", "io_error", "symlink_error", "binary_file", "disk_space_error",
     "resource_limit"}

\* The steps of the patch tools.
PatchNext ==
    \/ Begin
    \/ ApplySafety
    \/ ValidateSafety
    \/ ValidateRead
    \/ ApplyRead
    \/ ApplyWriteTemp
    \/ ApplyWriteTempFails
    \/ ReplaceUnix
    \/ ReplaceWindowsUnlink
    \/ ReplaceWindowsRename
    \/ ReplaceFails

\* The steps of backup_file, update_content and restore_backup before the
\* temporary file replaces the target.
FileNext ==
    \/ BackupSafety
    \/ BackupCopy
    \/ BackupCopyFails
    \/ UpdateSafety
    \/ UpdateRead
    \/ UpdateWriteTemp
    \/ UpdateWriteTempFails
    \/ RestoreCheck
    \/ RestoreCopy
    \/ RestoreCopyFails

\* The steps of a session on Unix in which no write or rename fails.
QuietNext ==
    \/ Begin
    \/ ApplySafety
    \/ ValidateSafety
    \/ ValidateRead
    \/ ApplyRead
    \/ ApplyWriteTemp
    \/ ReplaceUnix

\* The steps of a session on Unix.
UnixNext ==
    \/ QuietNext
    \/ ApplyWriteTempFails
    \/ ReplaceFails

\* The steps of a session on Unix beside another process that writes the target.
RaceNext ==
    \/ QuietNext
    \/ Writer

\* validate_file_safety is called on its own with what probe holds.
CheckSafety ==
    /\ probe.error = "pending"
    /\ probe' = [probe EXCEPT !.error = ValidateFileSafety(probe.st, probe.check_write,
                                                            probe.check_space)]
    /\ UNCHANGED << clock, wf, platform, disk_free, fs, patch, script, pc, call, file_lines,
                    original_lines, modified_lines, result, log, pre, touched, writes >>

\* ------------------------------------------------------------ specifications
EmptyDir == [p \in Paths |-> NoEntry]

\* The platform, the free space and the target's mode of a session.
Env(plat, free, mode) == << plat, free, mode >>
UnixEnvs == {Env("Unix", MIN_FREE_SPACE, "0644")}
WindowsEnvs == {Env("Windows", MIN_FREE_SPACE, "0644")}
TightEnvs == {Env("Unix", MIN_FREE_SPACE - 1, "0644"), Env("Unix", MIN_FREE_SPACE, "0444")}

WritingScripts == {<< Call(op, FALSE) >> : op \in {"apply", "revert"}}
OneCallScripts == WritingScripts \cup {<< Call("validate", FALSE) >>, << Call("apply", TRUE) >>}

\* No tool call has been made.
NoCalls ==
    /\ pc = "idle"
    /\ call = NoCall
    /\ file_lines = << >>
    /\ original_lines = << >>
    /\ modified_lines = << >>
    /\ result = NoResult
    /\ log = << >>
    /\ pre = fs
    /\ touched = {}
    /\ writes = 0
    /\ clock = 1

\* No call has been made.
Fresh == NoCalls /\ wf = NoWf

InitWith(envs, datas, patches, scripts) ==
    /\ \E env \in envs, data \in datas :
          /\ platform = env[1]
          /\ disk_free = env[2]
          /\ fs = [EmptyDir EXCEPT !["f"] = FileEntry(data, env[3]), !["d"] = DirEntry]
    /\ patch \in patches
    /\ script \in scripts
    /\ probe = NoProbe
    /\ Fresh

\* One call of validate_patch, apply_patch or revert_patch on a file: any call
\* with any patch text on Unix, the calls that write on Windows, and the texts
\* that need no matching file where the file is read-only or the disk is short.
Init ==
    \/ InitWith(UnixEnvs, FileDatas, Patches, OneCallScripts)
    \/ InitWith(WindowsEnvs, FileDatas, Patches, WritingScripts)
    \/ InitWith(TightEnvs, FileDatas, SpecialPatches, OneCallScripts)

Spec == Init /\ [][PatchNext]_vars

\* An apply_patch and then a revert_patch of the same one-hunk patch, on Unix.
RoundTripScripts == {<< Call("apply", FALSE), Call("revert", FALSE) >>}

InitRoundTrip == InitWith(UnixEnvs, TextFiles, SingleHunkPatches, RoundTripScripts)

SpecRoundTrip == InitRoundTrip /\ [][QuietNext]_vars

\* A dry run and then a real apply_patch of the same patch, on Unix.
DryThenRealScripts == {<< Call("apply", TRUE), Call("apply", FALSE) >>}

InitDry ==
    \/ InitWith(UnixEnvs, FileDatas, Patches, DryThenRealScripts)
    \/ InitWith(TightEnvs, FileDatas, SpecialPatches, DryThenRealScripts)

SpecDry == InitDry /\ [][UnixNext]_vars

\* One apply_patch on Unix while another process may rewrite the file.
InitRace == InitWith(UnixEnvs, TextFiles, TwoHunkPatches \cup SpecialPatches,
                     {<< Call("apply", FALSE) >>})

SpecRace == InitRace /\ [][RaceNext]_vars

\* What the safety gate can find at a path: a path with nothing behind it is no
\* file, only a regular file is sniffed for binary content, and the size is
\* below, at or above the ceiling.
Stats ==
    {st \in [exists : BOOLEAN, is_file : BOOLEAN, is_symlink : BOOLEAN, binary : BOOLEAN,
             stat_ok : BOOLEAN, size : {0, MAX_FILE_SIZE, MAX_FILE_SIZE + 1},
             writable : BOOLEAN, du_ok : BOOLEAN,
             free : {0, MIN_FREE_SPACE - 1, MIN_FREE_SPACE}] :
        /\ st.is_file => st.exists
        /\ st.binary => st.is_file}

\* One call of validate_file_safety, on any such path.
InitSafety ==
    /\ probe \in [st : Stats, check_write : BOOLEAN, check_space : BOOLEAN, error : {"pending"}]
    /\ platform = "Unix"
    /\ disk_free = MIN_FREE_SPACE
    /\ fs = EmptyDir
    /\ patch = EmptyPatch
    /\ script = << >>
    /\ Fresh

SpecSafety == InitSafety /\ [][CheckSafety]_vars

\* One call of any tool on the file "f" or on the symlink "lnk", which points
\* to the file, to the directory "d" or to nothing; there is a backup of an
\* earlier version of the file.
LinkTargets == {"f", "d", "gone"}

Contents == {FileOf(<< t >>, TRUE) : t \in Texts}

OneLinePatches ==
    {PatchText(<< MinusHeader, PlusHeader, HunkHeader(1, SrcCount(<< l >>), 1, TgtCount(<< l >>)), l >>) :
        l \in BodyLines} \cup {EmptyPatch, NoHeaderPatch}

PatchScripts ==
    {<< PatchCall(op, p, FALSE) >> : op \in {"validate", "apply", "revert"}, p \in {"f", "lnk"}}
        \cup {<< PatchCall("apply", p, TRUE) >> : p \in {"f", "lnk"}}

FileScripts ==
    {<< BackupCall(p) >> : p \in {"f", "lnk"}}
        \cup {<< UpdateCall(p, oc, nc, dry) >> :
                 p \in {"f", "lnk"}, oc \in Contents, nc \in Contents, dry \in BOOLEAN}
        \cup {<< RestoreCall(b, t, force) >> :
                 b \in {BackupPath("f", 1), "f", "d", "gone"}, t \in {"f", "lnk", "d", "auto"},
                 force \in BOOLEAN}

InitLink ==
    /\ \E to \in LinkTargets, data \in Contents, mode \in {"0644", "0444"} :
          fs = [EmptyDir EXCEPT !["f"] = FileEntry(data, mode), !["d"] = DirEntry,
                                !["lnk"] = LinkEntry(to),
                                ![BackupPath("f", 1)] = FileEntry(FileOf(<< << "b" >> >>, TRUE), "0644")]
    /\ platform = "Unix"
    /\ disk_free \in {MIN_FREE_SPACE - 1, MIN_FREE_SPACE}
    /\ \/ patch \in OneLinePatches /\ script \in PatchScripts
       \/ patch = EmptyPatch /\ script \in FileScripts
    /\ probe = NoProbe
    /\ Fresh

LinkNext ==
    \/ UnixNext
    \/ FileNext

SpecLink == InitLink /\ [][LinkNext]_vars

\* One call on a file with "\n" or with "\r\n" line ends, the patch text empty
\* or made of white space only, on Unix with no write or rename failing.
CrlfFiles == {WriteText(data, "Windows") : data \in TextFiles}

BlankPatches == {EmptyPatch, BlankPatch, << NL, NL >>, << " ", CR, NL, " " >>}

InitBlank == InitWith(UnixEnvs, TextFiles \cup CrlfFiles, BlankPatches, OneCallScripts)

SpecBlank == InitBlank /\ [][QuietNext]_vars

\* generate_patch compares the file "f" with the file "g"; the patch it returns
\* is handed to validate_patch and then to apply_patch on "f".  On Unix, with
\* no write or rename failing.
ContextLines == {0, 1, 3}

GenerateScripts ==
    {<< GenerateCall("f", "g", n), Call("validate", FALSE), Call("apply", FALSE) >> :
        n \in ContextLines}

InitGenerate ==
    /\ \E a \in TextFiles, b \in TextFiles :
          fs = [EmptyDir EXCEPT !["f"] = FileEntry(a, "0644"), !["g"] = FileEntry(b, "0644")]
    /\ platform = "Unix"
    /\ disk_free = MIN_FREE_SPACE
    /\ patch = EmptyPatch
    /\ script \in GenerateScripts
    /\ probe = NoProbe
    /\ Fresh

GenerateNext ==
    \/ QuietNext
    \/ GenerateSafety
    \/ GenerateRead

SpecGenerate == InitGenerate /\ [][GenerateNext]_vars

\* The file "f" is backed up at three versions, update_content writing the next
\* version between the backups, and then one of the backup paths is restored;
\* seconds pass between the calls or do not.  Copies and renames may fail.
Versions(nl) ==
    << FileOf(<< << "a" >> >>, nl), FileOf(<< << "b" >> >>, nl),
       FileOf(<< << "a" >>, << "b" >> >>, nl) >>

ChainScripts ==
    {<< BackupCall("f"), UpdateCall("f", Versions(nl)[1], Versions(nl)[2], FALSE),
        BackupCall("f"), UpdateCall("f", Versions(nl)[2], Versions(nl)[3], FALSE),
        BackupCall("f"), RestoreCall(BackupPath("f", t), "auto", force) >> :
        nl \in BOOLEAN, t \in 1..MaxClock, force \in {FALSE}}

InitChain ==
    /\ script \in ChainScripts
    /\ fs = [EmptyDir EXCEPT !["f"] = FileEntry(script[2].original_content, "0644")]
    /\ platform = "Unix"
    /\ disk_free = MIN_FREE_SPACE
    /\ patch = EmptyPatch
    /\ probe = NoProbe
    /\ Fresh

ChainNext ==
    \/ Begin
    \/ Tick
    \/ FileNext
    \/ ReplaceUnix
    \/ ReplaceFails

SpecChain == InitChain /\ [][ChainNext]_vars

\* batch_apply_patches or apply_patches_atomic is called with up to MaxBatch
\* pairs, each one of the files "f" and "g" with a patch that turns a one-line
\* file "a" into "b" or "b" into "a"; "f" holds the line "a", "g" either line
\* and may be read-only, and copies, writes and renames may fail.  The whole call falls
\* within one second.
SwapPatch(old, new) ==
    PatchText(<< MinusHeader, PlusHeader, HunkHeader(1, 1, 1, 1), << "-" >> \o old,
                 << "+" >> \o new >>)

BatchPatches == {SwapPatch(<< "a" >>, << "b" >>), SwapPatch(<< "b" >>, << "a" >>)}

PatchLists(paths, patches) == UNION {[1..n -> paths \X patches] : n \in 0..MaxBatch}

InitBatch ==
    /\ \E b \in Contents, mode \in {"0644", "0444"} :
          fs = [EmptyDir EXCEPT !["f"] = FileEntry(<< "a", NL >>, "0644"),
                                !["g"] = FileEntry(b, mode)]
    /\ platform \in {"Unix", "Windows"}
    /\ disk_free = MIN_FREE_SPACE
    /\ patch = EmptyPatch
    /\ script = << >>
    /\ probe = NoProbe
    /\ NoCalls
    /\ \E fn \in {"batch", "atomic"}, items \in PatchLists(Files, BatchPatches) :
          wf = WfStart(fn, items, fs)

\* The steps of the tools an orchestration function calls.
ToolNext ==
    \/ ApplySafety
    \/ ValidateSafety
    \/ ValidateRead
    \/ ApplyRead
    \/ ApplyWriteTemp
    \/ ApplyWriteTempFails
    \/ ReplaceUnix
    \/ ReplaceWindowsUnlink
    \/ ReplaceWindowsRename
    \/ ReplaceFails

BatchNext ==
    \/ Tick
    \/ WfEnter
    \/ WfCall
    \/ BatchReturn
    \/ AtomicReturn
    \/ ToolNext
    \/ BackupSafety
    \/ BackupCopy
    \/ BackupCopyFails
    \/ RestoreCheck
    \/ RestoreCopy
    \/ RestoreCopyFails

SpecBatch == InitBatch /\ [][BatchNext]_vars

\* apply_patches_with_revert is called on "f", a one-line file with or without
\* its final newline, with up to MaxPatches of the patches that turn "a" into
\* "b" or "b" into "a"; writes and renames may fail.
RevertFiles == {FileOf(t, nl) : t \in {<< << "a" >> >>, << << "b" >> >>}, nl \in BOOLEAN}

InitRevert ==
    /\ \E data \in RevertFiles : fs = [EmptyDir EXCEPT !["f"] = FileEntry(data, "0644")]
    /\ platform \in {"Unix", "Windows"}
    /\ disk_free = MIN_FREE_SPACE
    /\ patch = EmptyPatch
    /\ script = << >>
    /\ probe = NoProbe
    /\ NoCalls
    /\ \E items \in UNION {[1..n -> {"f"} \X BatchPatches] : n \in 0..MaxPatches} :
          wf = WfStart("with_revert", items, fs)

RevertNext ==
    \/ WfEnter
    \/ WfCall
    \/ RevertReturn
    \/ ToolNext

SpecRevert == InitRevert /\ [][RevertNext]_vars

\* One call of update_content on the file "f" on Unix, beside another process
\* that may rewrite "f" once while the call is running; the file has "\n" or
\* "\r\n" line ends.
UpdateScripts ==
    {<< UpdateCall("f", oc, nc, dry) >> : oc \in Contents, nc \in Contents, dry \in BOOLEAN}

InitUpdate ==
    InitWith(UnixEnvs, Contents \cup {WriteText(c, "Windows") : c \in Contents}, {EmptyPatch},
             UpdateScripts)

UpdateNext ==
    \/ Begin
    \/ UpdateSafety
    \/ UpdateRead
    \/ UpdateWriteTemp
    \/ UpdateWriteTempFails
    \/ ReplaceUnix
    \/ ReplaceFails
    \/ Writer

SpecUpdate == InitUpdate /\ [][UpdateNext]_vars

\* One call of any of the seven tools on Unix: the calls of the symlink
\* sessions, and generate_patch on a file, a symlink, a directory or a missing
\* path.
GeneratePaths == {"f", "lnk", "d", "gone"}

InitTools ==
    \/ InitLink
    \/ /\ \E to \in LinkTargets, data \in Contents :
             fs = [EmptyDir EXCEPT !["f"] = FileEntry(data, "0644"), !["d"] = DirEntry,
                                   !["lnk"] = LinkEntry(to)]
       /\ platform = "Unix"
       /\ disk_free = MIN_FREE_SPACE
       /\ patch = EmptyPatch
       /\ script \in {<< GenerateCall(p, q, 3) >> : p \in GeneratePaths, q \in GeneratePaths}
       /\ probe = NoProbe
       /\ Fresh

ToolsNext ==
    \/ LinkNext
    \/ GenerateSafety
    \/ GenerateRead

SpecTools == InitTools /\ [][ToolsNext]_vars

\* One request to call_tool on Unix with no write or rename failing: the file
\* "f" holds one line and has a backup; update_content is asked for with and
\* without dry_run, and so is each of the other tools, and one name that
\* call_tool does not know.
UpdateRequests ==
    {Request("update_content",
             [file_path |-> "f", original_content |-> oc, new_content |-> nc, dry_run |-> dry]) :
        oc \in Contents, nc \in Contents, dry \in BOOLEAN}
        \cup {Request("update_content",
                      [file_path |-> "f", original_content |-> oc, new_content |-> nc]) :
                 oc \in Contents, nc \in Contents}

OtherRequests ==
    {Request("apply_patch", [file_path |-> "f", patch |-> p, dry_run |-> dry]) :
        p \in BatchPatches, dry \in BOOLEAN}
        \cup {Request(name, [file_path |-> "f", patch |-> p]) :
                 name \in {"validate_patch", "revert_patch"}, p \in BatchPatches}
        \cup {Request("backup_file", [file_path |-> "f"]),
              Request("restore_backup", [backup_file |-> BackupPath("f", 1)]),
              Request("restore_backup", [backup_file |-> BackupPath("f", 1),
                                         target_file |-> "f", force |-> TRUE])}

InitServer ==
    /\ \E data \in Contents :
          fs = [EmptyDir EXCEPT !["f"] = FileEntry(data, "0644"),
                                ![BackupPath("f", 1)] =
                                    FileEntry(FileOf(<< << "b" >> >>, TRUE), "0644")]
    /\ platform = "Unix"
    /\ disk_free = MIN_FREE_SPACE
    /\ patch = EmptyPatch
    /\ script \in {<< r >> : r \in UpdateRequests \cup OtherRequests}
    /\ probe = NoProbe
    /\ Fresh

ServerNext ==
    \/ CallTool
    \/ CallToolUnknown
    \/ ApplySafety
    \/ ValidateSafety
    \/ ValidateRead
    \/ ApplyRead
    \/ ApplyWriteTemp
    \/ BackupSafety
    \/ BackupCopy
    \/ RestoreCheck
    \/ RestoreCopy
    \/ UpdateSafety
    \/ UpdateRead
    \/ ReplaceUnix

SpecServer == InitServer /\ [][ServerNext]_vars

\* One validate_patch call on Unix with a patch as difflib.unified_diff makes
\* it of two lists of lines without their newlines (a range of no lines starts
\* at the line before it: "+0,0" when every line goes), or with a two-hunk patch.
DiffPatches ==
    {JoinDiff(UnifiedDiff(old, new, "f", "f", n)) :
        old \in TextLineSeqs, new \in TextLineSeqs, n \in ContextLines}

PreviewPatches == DiffPatches \cup TwoHunkPatches

InitPreview == InitWith(UnixEnvs, TextFiles, PreviewPatches, {<< Call("validate", FALSE) >>})

ValidateNext ==
    \/ Begin
    \/ ValidateSafety
    \/ ValidateRead

SpecPreview == InitPreview /\ [][ValidateNext]_vars

\* One call of validate_patch, apply_patch or revert_patch on Unix, on a
\* one-line file, with a patch that replaces one line by another; the lines are
\* short, longer than max_content_length, with an apostrophe, or path-like.
LongText == [k \in 1..(MaxContentLength + 1) |-> "y"]

ReasonTexts ==
    {<< "a" >>, << "b" >>, LongText, LongText \o << "z" >>,
     << "i", "t", "'", "s", " " >> \o LongText,
     << "/", "d", "/", "k" >>, << "d", "/", "k" >>}

ReplacePatches ==
    {PatchText(<< MinusHeader, PlusHeader, HunkHeader(1, 1, 1, 1),
                  << "-" >> \o pr[1], << "+" >> \o pr[2] >>) :
        pr \in {pr \in ReasonTexts \X ReasonTexts : pr[1] # pr[2]}}

InitReasons ==
    InitWith(UnixEnvs, {FileOf(<< t >>, TRUE) : t \in ReasonTexts}, ReplacePatches,
             OneCallScripts)

SpecReasons == InitReasons /\ [][QuietNext]_vars

\* One apply_patch call on Unix with a one-hunk patch, on a file whose lines
\* end with LF or with CRLF, the last with or without its terminator.
InitEndings ==
    InitWith(UnixEnvs, TextFiles \cup CrlfFiles, SingleHunkPatches, {<< Call("apply", FALSE) >>})

SpecEndings == InitEndings /\ [][QuietNext]_vars

\* Two one-line hunks with the same source_start, in either order in the text.
StackedPatches ==
    {PatchText(<< MinusHeader, PlusHeader,
                  HunkHeader(s, SrcCount(<< l1 >>), s, TgtCount(<< l1 >>)), l1,
                  HunkHeader(s, SrcCount(<< l2 >>), s, TgtCount(<< l2 >>)), l2 >>) :
        s \in 1..MaxLines, l1 \in BodyLines, l2 \in BodyLines}

\* One apply_patch call on Unix with a patch of two hunks.
InitHunks ==
    InitWith(UnixEnvs, TextFiles, TwoHunkPatches \cup StackedPatches,
             {<< Call("apply", FALSE) >>})

SpecHunks == InitHunks /\ [][QuietNext]_vars

\* One writing call on a file that has a backup, on either platform, where the
\* write of the temporary file and the rename may fail: apply_patch with a
\* one-hunk patch, restore_backup, or update_content whose new_content may
\* hold a character that utf-8 cannot encode.
TempContents == Contents \cup {<< "b", LoneSurrogate, NL >>}

TempScripts ==
    {<< Call("apply", FALSE) >>, << RestoreCall(BackupPath("f", 1), "f", FALSE) >>}
        \cup {<< UpdateCall("f", oc, nc, FALSE) >> : oc \in Contents, nc \in TempContents}

InitTemp ==
    /\ \E data \in Contents :
          fs = [EmptyDir EXCEPT !["f"] = FileEntry(data, "0644"),
                                ![BackupPath("f", 1)] =
                                    FileEntry(FileOf(<< << "b" >> >>, TRUE), "0644")]
    /\ platform \in {"Unix", "Windows"}
    /\ disk_free = MIN_FREE_SPACE
    /\ patch \in SingleHunkPatches
    /\ script \in TempScripts
    /\ probe = NoProbe
    /\ Fresh

TempNext ==
    \/ PatchNext
    \/ UpdateSafety
    \/ UpdateRead
    \/ UpdateWriteTemp
    \/ UpdateWriteTempFails
    \/ UpdateWriteTempRaises
    \/ RestoreCheck
    \/ RestoreCopy
    \/ RestoreCopyFails

SpecTemp == InitTemp /\ [][TempNext]_vars

\* One call of apply_patch or update_content on Unix, with no write or rename
\* failing, on a file whose mode is 0644, 0600 or 0755.
ModeEnvs == {Env("Unix", MIN_FREE_SPACE, mode) : mode \in {"0644", "0600", "0755"}}

InitModes ==
    \/ InitWith(ModeEnvs, TextFiles, SingleHunkPatches, WritingScripts)
    \/ InitWith(ModeEnvs, Contents, {EmptyPatch}, UpdateScripts)

ModesNext ==
    \/ QuietNext
    \/ UpdateSafety
    \/ UpdateRead
    \/ UpdateWriteTemp

SpecModes == InitModes /\ [][ModesNext]_vars

\* _parse_patch and _parse_patch_hunks are each called on a patch text of up
\* to MaxPatchLines lines, every line one of: a file header, a hunk header
\* (with counts, without, with a target range that lacks its "+", with one
\* range only), a Remove, Add or Context line, a Remove line of text "--x" and
\* an Add line of text "++y".
MaxPatchLines == 4

PatchLineKinds ==
    {MinusHeader, PlusHeader, HunkHeader(1, 2, 1, 2), ShortHunkHeader(2, 2),
     << "@", "@", " ", "-", "1", ",", "1", " ", "1", ",", "1", " ", "@", "@" >>,
     << "@", "@", " ", "-", "1", ",", "1", " ", "@", "@" >>,
     << "-", "a" >>, << "+", "b" >>, << " ", "c" >>,
     << "-", "-", "-", "x" >>, << "+", "+", "+", "y" >>}

ParserTexts ==
    {PatchText(lines) : lines \in UNION {[1..n -> PatchLineKinds] : n \in 0..MaxPatchLines}}

NoParse(text) ==
    [text |-> text, validated |-> FALSE, parsed |-> EmptyParse, applied |-> FALSE,
     hunks |-> [raised |-> FALSE, hunks |-> << >>]]

InitParsers ==
    /\ probe \in {NoParse(text) : text \in ParserTexts}
    /\ platform = "Unix"
    /\ disk_free = MIN_FREE_SPACE
    /\ fs = EmptyDir
    /\ patch = EmptyPatch
    /\ script = << >>
    /\ Fresh

\* parse_result = _parse_patch(patch) (validate.py 116)
ParseForValidate ==
    /\ ~probe.validated
    /\ probe' = [probe EXCEPT !.validated = TRUE, !.parsed = ParsePatch(probe.text)]
    /\ UNCHANGED << clock, wf, platform, disk_free, fs, patch, script, pc, call, file_lines,
                    original_lines, modified_lines, result, log, pre, touched, writes >>

\* hunks = _parse_patch_hunks(patch) (apply.py 188)
ParseForApply ==
    /\ ~probe.applied
    /\ probe' = [probe EXCEPT !.applied = TRUE, !.hunks = ParsePatchHunks(probe.text)]
    /\ UNCHANGED << clock, wf, platform, disk_free, fs, patch, script, pc, call, file_lines,
                    original_lines, modified_lines, result, log, pre, touched, writes >>

ParsersNext ==
    \/ ParseForValidate
    \/ ParseForApply

SpecParsers == InitParsers /\ [][ParsersNext]_vars

\* One apply_patch on Unix, with no write or rename failing, of a one-hunk
\* patch whose header gives any source count of 0..MaxLines, whatever its body
\* holds.
SkewedPatches ==
    {PatchText(<< MinusHeader, PlusHeader, HunkHeader(ss, sc, ss, TgtCount(body)) >> \o body) :
        ss \in 1..MaxLines, sc \in 0..MaxLines, body \in Bodies}

InitCounts == InitWith(UnixEnvs, TextFiles, SkewedPatches, {<< Call("apply", FALSE) >>})

SpecCounts == InitCounts /\ [][QuietNext]_vars

\* One apply_patch on Unix, with no write or rename failing, on a file of one
\* or two terminated lines "a" or "--x", of a one-hunk patch whose body may
\* hold the Add line of the text "++y" and the Remove line of the text "--x";
\* the header counts are those of the body's first characters.
DashText == << "-", "-", "x" >>

DashFiles == {FileOf(ls, TRUE) : ls \in UNION {[1..k -> {<< "a" >>, DashText}] : k \in 1..MaxLines}}

DashBodyLines ==
    {<< " ", "a" >>, << "-", "a" >>, << "+", "b" >>, << "+", "+", "+", "y" >>,
     << "-" >> \o DashText}

DashPatches ==
    {PatchText(<< MinusHeader, PlusHeader,
                  HunkHeader(ss, SrcCount(body), ss, TgtCount(body)) >> \o body) :
        ss \in 1..MaxLines, body \in UNION {[1..k -> DashBodyLines] : k \in 1..MaxBody}}

InitDashes == InitWith(UnixEnvs, DashFiles, DashPatches, {<< Call("apply", FALSE) >>})

SpecDashes == InitDashes /\ [][QuietNext]_vars

\* ================================================================ properties
\* The calls that have returned.
Returned == DOMAIN log

\* The running call is an apply_patch or revert_patch that writes.
Writing == InCall /\ call.op \in {"apply", "revert"} /\ ~call.dry_run

\* C1: a failed apply_patch or revert_patch call (success=false, whatever the
\* cause) leaves the target as it was when the call began.
C1_FailedCallKeepsFile ==
    \A i \in Returned :
        log[i].op \in {"apply", "revert"} /\ ~log[i].result.success
            => log[i].after = log[i].before

C1_FailedInRename ==
    \E i \in Returned : log[i].op = "apply" /\ log[i].at = "rename" /\ ~log[i].result.success

\* C2: at every instant of an apply_patch with several hunks, the target path
\* holds either the content it had when the call began or the content with
\* every hunk applied.
C2_ReaderSeesOldOrNew ==
    Writing /\ result.changes.hunks >= 2
        => \/ fs[call.path] = pre[call.path]
           \/ /\ fs[call.path].kind = "file"
              /\ fs[call.path].data = WriteText(Concat(modified_lines), platform)

C2_TargetUnlinked == Writing /\ pc = "rename" /\ result.changes.hunks >= 2

\* validate_patch has returned its verdict on a well-formed patch.
Validated ==
    /\ pc = "idle"
    /\ Len(log) > 0
    /\ log[Len(log)].op = "validate"
    /\ result.valid = "true"

\* The texts of the file's lines in the window of a hunk: the lines numbered
\* source_start .. source_start + source_count - 1 that the file has.
WindowTexts(lines, hunk) ==
    {RStripNL(lines[k]) : k \in {n \in 1..Len(lines) :
        hunk.source_start <= n /\ n < hunk.source_start + hunk.source_count}}

\* Some Remove line of some hunk is not among the texts of the hunk's window.
RemoveAbsent(lines, hunks) ==
    \E i \in 1..Len(hunks) : \E r \in 1..Len(hunks[i].removed_lines) :
        RStripNL(hunks[i].removed_lines[r]) \notin WindowTexts(lines, hunks[i])

\* The window of some hunk does not lie within the file.
WindowOutside(lines, hunks) ==
    \E i \in 1..Len(hunks) :
        \/ hunks[i].source_start < 1
        \/ hunks[i].source_start - 1 + hunks[i].source_count > Len(lines)

\* C5 as stated: validate_patch answers can_apply=false exactly when some
\* Remove line is absent from its hunk's window, and can_apply=true otherwise.
C5_CanApplyIffRemovePresent ==
    Validated =>
        (result.can_apply = "false" <=> RemoveAbsent(file_lines, ParsePatch(patch).hunks))

\* C5, amended: validate_patch answers can_apply=false exactly when some
\* hunk's window does not lie within the file or some Remove line is absent
\* from its hunk's window, and can_apply=true otherwise.
C5_CanApplyIffInRangeAndRemovePresent ==
    Validated =>
        /\ result.can_apply \in {"true", "false"}
        /\ result.can_apply = "false" <=>
               \/ WindowOutside(file_lines, ParsePatch(patch).hunks)
               \/ RemoveAbsent(file_lines, ParsePatch(patch).hunks)

C5_RefusedForRangeAlone ==
    /\ Validated
    /\ result.can_apply = "false"
    /\ WindowOutside(file_lines, ParsePatch(patch).hunks)
    /\ ~RemoveAbsent(file_lines, ParsePatch(patch).hunks)

\* The number of file lines a hunk's lines before the j-th stand for.
SourceOffset(hunk_lines, j) == Cardinality({k \in 1..(j - 1) : hunk_lines[k][1] # "add"})

\* Every context line of the hunk is the text of the file line at its place.
ContextMatches(lines, hunk) ==
    \A j \in 1..Len(hunk.lines) :
        hunk.lines[j][1] = "context" =>
            LET n == hunk.source_start + SourceOffset(hunk.lines, j)
            IN  n \in 1..Len(lines) /\ RStripNL(lines[n]) = RStripNL(hunk.lines[j][2])

\* C6: validate_patch reports success only if every hunk's context lines are
\* the file's lines at the hunk's position.
C6_SuccessOnlyIfContextMatches ==
    Validated /\ result.success =>
        \A i \in 1..Len(ParsePatchHunks(patch).hunks) :
            ContextMatches(file_lines, ParsePatchHunks(patch).hunks[i])

C6_SuccessWithContext ==
    /\ Validated
    /\ result.success
    /\ \E i \in 1..Len(ParsePatchHunks(patch).hunks) :
          \E j \in 1..Len(ParsePatchHunks(patch).hunks[i].lines) :
              ParsePatchHunks(patch).hunks[i].lines[j][1] = "context"

\* The last call was an apply_patch or revert_patch that wrote the file.
Committed ==
    /\ pc = "idle"
    /\ Len(log) > 0
    /\ log[Len(log)].op \in {"apply", "revert"}
    /\ ~log[Len(log)].dry_run
    /\ log[Len(log)].result.success

\* C3: the content apply_patch spliced the hunks into and committed passes the
\* matcher's check for every hunk, whatever another process wrote meanwhile.
C3_CommittedContentPassesMatcher ==
    Committed => CanApplyPatch(original_lines, ParsePatch(EffPatch).hunks).can_apply

C3_CommittedBesideWriter == Committed /\ writes > 0

\* The patch has one hunk, and the file's lines at the hunk's source range
\* are the hunk's context and Remove lines, in order.
SourceLines(hunk_lines) == SelectSeq(hunk_lines, LAMBDA l : l[1] # "add")

SourceRangeMatches(lines, patch_text) ==
    LET parsed == ParsePatchHunks(patch_text)
        hunk == parsed.hunks[1]
        src == SourceLines(hunk.lines)
    IN  /\ ParsePatch(patch_text).valid
        /\ ~parsed.raised
        /\ Len(parsed.hunks) = 1
        /\ hunk.source_start >= 1
        /\ hunk.source_count = Len(src)
        /\ hunk.source_start - 1 + hunk.source_count <= Len(lines)
        /\ \A k \in 1..Len(src) :
              RStripNL(lines[hunk.source_start - 1 + k]) = RStripNL(src[k][2])

\* apply_patch and then revert_patch have returned, the first with success, on
\* a file and a patch as C4 asks.
RoundTripDone ==
    /\ pc = "idle"
    /\ Len(log) = 2
    /\ log[1].op = "apply" /\ log[1].result.success
    /\ log[2].op = "revert"
    /\ log[1].before.kind = "file"
    /\ SourceRangeMatches(ReadLines(log[1].before.data), patch)

\* C4: after a successful apply_patch of such a patch, revert_patch with the
\* same patch succeeds and the file holds the bytes it held before the apply.
C4_RoundTripRestores ==
    RoundTripDone =>
        /\ log[2].result.success
        /\ log[2].after.data = log[1].before.data

C4_RoundTripOfChangingPatch ==
    /\ RoundTripDone
    /\ log[1].after.data # log[1].before.data
    /\ log[2].result.success
    /\ log[2].after.data = log[1].before.data

\* The running or last call was given a path that was a symlink.
OnSymlink == call.op # "-" /\ EntryAt(pre, call).kind = "link"

\* C9: a tool given a path that is a symlink returns symlink_error, wherever
\* the link points, and neither opens nor changes what the link points to.
C9_SymlinkRefusedUnfollowed ==
    OnSymlink =>
        /\ pc = "idle" => result.error_type = "symlink_error"
        /\ EntryAt(pre, call).to \notin touched
        /\ fs[EntryAt(pre, call).to] = pre[EntryAt(pre, call).to]

C9_SymlinkToFileRefused ==
    /\ OnSymlink
    /\ pc = "idle"
    /\ EntryAt(pre, call).to = "f"
    /\ result.error_type = "symlink_error"

\* C7: an apply_patch with dry_run=true leaves the target's entry as it was,
\* while it runs and when it has returned, whatever it returns.
C7_DryRunKeepsBytes ==
    /\ InCall /\ call.dry_run => fs[call.path] = pre[call.path]
    /\ \A i \in Returned : log[i].dry_run => log[i].after = log[i].before

C7_DryRunOfChangingPatch ==
    \E i \in Returned :
        /\ log[i].dry_run
        /\ log[i].result.success
        /\ log[i].result.changes.lines_added + log[i].result.changes.lines_removed > 0

\* A dry run and then a real apply_patch have returned, the file between them
\* as the dry run found it.
DryThenReal ==
    /\ pc = "idle"
    /\ Len(log) = 2
    /\ log[1].op = "apply" /\ log[1].dry_run
    /\ log[2].op = "apply" /\ ~log[2].dry_run
    /\ log[2].before = log[1].before

Outcome(res) == << res.success, res.error_type >>

\* The real apply failed in its commit step, which a dry run does not take.
FailedInCommit(entry) == ~entry.result.success /\ entry.at \in {"a_write", "replace", "rename"}

\* The real apply was refused by the gate's writability or free-space check.
RefusedForWriting(entry) ==
    /\ entry.at = "a_safety"
    /\ \/ entry.result.error_type = "permission_denied" /\ ~Writable(entry.before.mode)
       \/ entry.result.error_type = "disk_space_error" /\ disk_free < MIN_FREE_SPACE

NotRegularFile(st) == ~st.exists \/ ~st.is_file
TooLarge(st) == ~st.stat_ok \/ st.size > MAX_FILE_SIZE
NotWritable(pr) == pr.check_write /\ ~pr.st.writable
NoSpace(pr) == pr.check_space /\ (~pr.st.du_ok \/ pr.st.free < MIN_FREE_SPACE)

\* C10: validate_file_safety returns the error of the first check that fails
\* in the order existence and regular file, symlink, binary, size, writability
\* (if asked for), free space (if asked for), and no error when none fails.
C10_FirstFailingCheckWins ==
    probe.error # "pending" /\ probe.error # "-" =>
        LET st == probe.st
        IN  IF NotRegularFile(st)
            THEN probe.error = (IF ~st.exists THEN "file_not_found" ELSE "io_error")
            ELSE IF st.is_symlink THEN probe.error = "symlink_error"
            ELSE IF st.binary THEN probe.error = "binary_file"
            ELSE IF TooLarge(st)
            THEN probe.error = (IF ~st.stat_ok THEN "io_error" ELSE "resource_limit")
            ELSE IF NotWritable(probe) THEN probe.error = "permission_denied"
            ELSE IF NoSpace(probe)
            THEN probe.error = (IF ~st.du_ok THEN "io_error" ELSE "disk_space_error")
            ELSE probe.error = "none"

C10_SeveralChecksFail ==
    /\ probe.error = "file_not_found"
    /\ probe.st.is_symlink
    /\ probe.st.size > MAX_FILE_SIZE
    /\ NotWritable(probe)
    /\ NoSpace(probe)

\* The patch text is empty or white space only (validate.py 187).
IsBlank(patch_text) == Len(Strip(patch_text)) = 0

\* C11: for an empty or whitespace-only patch text _parse_patch answers valid
\* with zero hunks, and apply_patch returns success with the target's bytes
\* after the call equal to its bytes before the call.
C11_BlankPatchIsNoOp ==
    IsBlank(patch) =>
        /\ ParsePatch(patch).valid
        /\ Len(ParsePatch(patch).hunks) = 0
        /\ \A i \in Returned :
              log[i].op = "apply" => log[i].result.success /\ log[i].after = log[i].before

C11_BlankPatchApplied ==
    \E i \in Returned :
        /\ IsBlank(patch) /\ Len(patch) > 0
        /\ log[i].op = "apply" /\ ~log[i].dry_run /\ log[i].at = "replace"
        /\ log[i].result.success
        /\ Len(log[i].before.data) > 0
        /\ log[i].after.data = log[i].before.data

\* generate_patch, validate_patch and apply_patch have returned in this order,
\* the generator with success.
GeneratedAndApplied ==
    /\ pc = "idle"
    /\ Len(log) = 3
    /\ log[1].op = "generate" /\ log[1].result.success
    /\ log[2].op = "validate"
    /\ log[3].op = "apply"

\* C12: the patch generate_patch returns for two text files A and B and any
\* context_lines >= 0 is accepted by validate_patch against A, and apply_patch
\* of it to A succeeds and leaves A with the content of B.
C12_GeneratedPatchApplies ==
    GeneratedAndApplied =>
        /\ log[2].result.success
        /\ log[2].result.can_apply = "true"
        /\ log[3].result.success
        /\ fs["f"].data = fs["g"].data

C12_GeneratedPatchChangesFile ==
    /\ GeneratedAndApplied
    /\ log[1].result.changes.hunks > 0
    /\ log[3].result.success
    /\ log[3].before.data # log[3].after.data
    /\ fs["f"].data = fs["g"].data

\* The calls of backup_file that returned success, and the path each wrote.
Backups == {i \in Returned : log[i].op = "backup" /\ log[i].result.success}
BackupOf(i) == BackupPath(log[i].call.path, log[i].now)

\* At least one second lies between any two backups.
SpacedBackups == \A i \in Backups, j \in Backups : i # j => log[i].now # log[j].now

\* C13: backups of a file taken at least one second apart are distinct files,
\* each holds the bytes the file had when it was backed up, whatever backup or
\* restore came later, and a restore of one of them leaves the target with
\* exactly those bytes.
C13_BackupsKeepTheirVersions ==
    SpacedBackups =>
        /\ \A i \in Backups, j \in Backups : i # j => BackupOf(i) # BackupOf(j)
        /\ \A i \in Backups :
              /\ fs[BackupOf(i)].kind = "file"
              /\ fs[BackupOf(i)].data = log[i].before.data
        /\ \A r \in Returned, i \in Backups :
              /\ log[r].op = "restore" /\ log[r].result.success
              /\ log[r].call.backup_file = BackupOf(i)
              => log[r].after.data = log[i].before.data

C13_ThreeBackupsOneRestored ==
    /\ SpacedBackups
    /\ Cardinality(Backups) = 3
    /\ \E r \in Returned, i \in Backups :
          /\ log[r].op = "restore" /\ log[r].result.success
          /\ log[r].call.backup_file = BackupOf(i)
          /\ log[r].before.data # log[r].after.data
          /\ fs["f"].data = log[i].before.data

\* The orchestration function has returned.
WfReturned == wf.fn # "none" /\ wf.ret # NoRet

\* The calls of a tool op the function made, as they returned.
WfCalls(op) == {i \in Returned : log[i].op = op}

\* An apply_patch of the function failed.
ApplyFailed == \E i \in WfCalls("apply") : ~log[i].result.success

\* Every file holds the bytes it held when the function was called.
AllAsBefore == \A p \in Files : fs[p].kind = wf.before[p].kind /\ fs[p].data = wf.before[p].data

\* C14: when batch_apply_patches returns after a patch of the batch failed to
\* apply, every file holds its content of before the call.
C14_FailedBatchRestoresAll ==
    WfReturned /\ wf.fn = "batch" /\ ApplyFailed => AllAsBefore

\* C14 as the code has it: when batch_apply_patches returns after a patch of
\* the batch failed to apply, restore_backup has been called for every file of
\* the batch, and every file whose restore returned success holds its content
\* of before the call.
C14_FailedBatchRestoresWhereRestoreSucceeds ==
    WfReturned /\ wf.fn = "batch" /\ ApplyFailed =>
        \A k \in 1..Len(wf.items) :
            LET p == wf.items[k][1]
            IN  /\ \E r \in WfCalls("restore") : TargetOf(log[r].call) = p
                /\ (\A r \in WfCalls("restore") :
                        TargetOf(log[r].call) = p => log[r].result.success)
                   => fs[p].kind = wf.before[p].kind /\ fs[p].data = wf.before[p].data

C14_BatchRolledBack ==
    /\ WfReturned /\ wf.fn = "batch" /\ ApplyFailed
    /\ Len(wf.applied) > 0
    /\ \A r \in WfCalls("restore") : log[r].result.success
    /\ AllAsBefore

\* Every file of the batch has been backed up by a backup_file call that
\* returned success.
BackupsComplete ==
    \A k \in 1..Len(wf.items) :
        \E i \in WfCalls("backup") : log[i].result.success /\ log[i].call.path = wf.items[k][1]

\* The backup file a backup_file call of the log created.
BackupTaken(i) == BackupPath(log[i].call.path, log[i].now)

\* C15: in batch_apply_patches and apply_patches_atomic no file differs from
\* its content of before the call until every file of the batch has a backup;
\* no apply_patch is called after one that failed; and once an apply failed
\* and the function has returned, restore_backup has been called for every
\* backup that was taken.
C15_BackupsFirstStopAtFailureRestoreAll ==
    /\ wf.fn \in {"batch", "atomic"} /\ ~AllAsBefore => BackupsComplete
    /\ \A i \in WfCalls("apply"), j \in WfCalls("apply") : i < j => log[i].result.success
    /\ WfReturned /\ ApplyFailed =>
          \A i \in WfCalls("backup") :
              log[i].result.success =>
                  \E r \in WfCalls("restore") :
                      r > i /\ log[r].call.backup_file = BackupTaken(i)

\* A pair of files was backed up, the first was patched, the second patch
\* failed and both backups were restored.
C15_TwoBackedUpOneAppliedBothRestored ==
    /\ WfReturned /\ ApplyFailed
    /\ Len(wf.items) = 2 /\ wf.items[1][1] # wf.items[2][1]
    /\ Cardinality(WfCalls("backup")) = 2
    /\ Cardinality(WfCalls("apply")) = 2
    /\ \E i \in WfCalls("apply") : log[i].result.success
    /\ Cardinality({r \in WfCalls("restore") : log[r].result.success}) = 2

\* A restore_backup of the function returned success=false.
RestoreFailed == \E r \in WfCalls("restore") : ~log[r].result.success

\* C16: when an apply failed and the restore of some backup failed as well,
\* the dict batch_apply_patches or apply_patches_atomic returns does not say
\* rollback_performed=true or rolled_back=true.
C16_FailedRestoreNotReportedAsRollback ==
    WfReturned /\ ApplyFailed /\ RestoreFailed => wf.ret.rollback # "true"

\* batch_apply_patches returns rollback_performed=false after the only
\* restore failed.
C16_FailedRestoreReported ==
    /\ WfReturned /\ ApplyFailed /\ RestoreFailed
    /\ wf.ret.rollback = "false"
    /\ ~AllAsBefore

\* The revert_patch calls apply_patches_with_revert made up to call r of the log.
RevertsUpTo(r) == {q \in WfCalls("revert") : q <= r}

\* C17: when apply_patches_with_revert returns after an apply_patch failed,
\* the k-th revert_patch it called was given the k-th last of the patches it
\* had applied; and when the result says reverted=true every applied patch
\* has been reverted and the file holds its content of before the call.
C17_RevertedInReverseAndRestored ==
    wf.fn = "with_revert" /\ WfReturned /\ ApplyFailed =>
        LET n == Len(wf.applied)
        IN  /\ \A r \in WfCalls("revert") :
                  /\ Cardinality(RevertsUpTo(r)) <= n
                  /\ log[r].patch = wf.applied[n - Cardinality(RevertsUpTo(r)) + 1]
            /\ wf.ret.reverted = "true" =>
                  /\ Cardinality({r \in WfCalls("revert") : log[r].result.success}) = n
                  /\ fs["f"].kind = wf.before["f"].kind
                  /\ fs["f"].data = wf.before["f"].data

\* Two patches were applied, the third failed, both were reverted and the
\* file is as it was.
C17_TwoReverted ==
    /\ wf.fn = "with_revert" /\ WfReturned /\ ApplyFailed
    /\ Len(wf.applied) = 2
    /\ wf.applied[1] # wf.applied[2]
    /\ wf.ret.reverted = "true"
    /\ fs["f"].data = wf.before["f"].data

\* The text a read of "f" in text mode gives equals the call's original_content.
HoldsOriginal ==
    /\ fs["f"].kind = "file"
    /\ Decodes(fs["f"].data)
    /\ ReadText(fs["f"].data) = call.original_content

\* C18: the step of update_content that puts new_content in the file's place
\* is taken only while the file holds original_content, and the step that
\* returns content_mismatch leaves the file as it is.
C18_UpdateReplacesOnlyOriginal ==
    [][/\ (call.op = "update" /\ pc = "replace" /\ fs'["f"] # fs["f"]) => HoldsOriginal
       /\ (call.op = "update" /\ pc = "u_read" /\ result'.error_type = "content_mismatch")
              => fs'["f"] = fs["f"]]_vars

\* update_content returned content_mismatch because the other process had
\* rewritten the file before the verification read, and the file still holds
\* what that process wrote.
C18_MismatchSeen ==
    /\ pc = "idle" /\ Len(log) = 1 /\ writes = 1
    /\ log[1].op = "update"
    /\ log[1].result.error_type = "content_mismatch"
    /\ log[1].before.data = log[1].call.original_content
    /\ log[1].after = fs["f"]
    /\ log[1].after # log[1].before

\* C20: every call of apply_patch, validate_patch, revert_patch,
\* generate_patch, backup_file, restore_backup or update_content that returned
\* success=false returned an error_type that is a value of ErrorType.
C20_FailuresCarryErrorType ==
    \A i \in Returned : ~log[i].result.success => log[i].result.error_type \in ErrorType

\* generate_patch failed with an error_type of the enumeration.
C20_GenerateFailedInTaxonomy ==
    /\ Len(log) = 1
    /\ log[1].op = "generate"
    /\ ~log[1].result.success
    /\ log[1].result.error_type \in ErrorType

\* Call i of the log answered an update_content request whose
\* original_content is what the file held and whose new_content differs.
UpdateRequested(i) ==
    /\ log[i].call.request.name = "update_content"
    /\ log[i].before.kind = "file"
    /\ ReadText(log[i].before.data) = log[i].call.request.arguments.original_content
    /\ log[i].call.request.arguments.new_content
           # log[i].call.request.arguments.original_content

\* C19: a call_tool('update_content') request hands file_path,
\* original_content, new_content and dry_run to update_content; where the file
\* holds original_content the call returns success with applied=true and the
\* file holding new_content, or, with dry_run=true, success with applied=false
\* and the file as it was.
C19_UpdateContentRouted ==
    \A i \in Returned :
        UpdateRequested(i) =>
            LET arguments == log[i].call.request.arguments
                dry_run == Get(arguments, "dry_run", FALSE)
            IN  /\ log[i].call.path = arguments.file_path
                /\ log[i].call.original_content = arguments.original_content
                /\ log[i].call.new_content = arguments.new_content
                /\ log[i].call.dry_run = dry_run
                /\ log[i].result.success
                /\ log[i].result.applied = ~dry_run
                /\ IF dry_run THEN log[i].after = log[i].before
                   ELSE ReadText(log[i].after.data) = arguments.new_content

\* call_tool has answered an update_content request on a file that held
\* original_content.
C19_UpdateRequestAnswered == \E i \in Returned : UpdateRequested(i)

\* An update_content request whose original_content is not what the file
\* holds is answered with content_mismatch.
C19_RequestRefused ==
    \E i \in Returned :
        /\ log[i].call.request.name = "update_content"
        /\ log[i].result.error_type = "content_mismatch"

\* ------------------------------------------------------------------ C21
ModifiedSinceNote ==
    << "f", "i", "l", "e", " ", "h", "a", "s", " ", "b", "e", "e", "n", " ", "m", "o",
       "d", "i", "f", "i", "e", "d", " ", "s", "i", "n", "c", "e", " ", "p", "a", "t",
       "c", "h", " ", "w", "a", "s", " ", "a", "p", "p", "l", "i", "e", "d" >>

\* Call i of the log went as far as the Context Matcher, which rejected a hunk
\* of the text the call handed to it.
MatcherRejected(i) ==
    LET text == IF log[i].op = "revert" THEN ReversePatch(log[i].patch) ELSE log[i].patch
    IN  /\ log[i].at = "v_read"
        /\ Decodes(log[i].before.data)
        /\ ParsePatch(text).valid
        /\ ~CanApplyPatch(ReadLines(log[i].before.data), ParsePatch(text).hunks).can_apply

\* The verdict of the hunk the Context Matcher rejected in call i.
RejectedFor(i) ==
    LET text == IF log[i].op = "revert" THEN ReversePatch(log[i].patch) ELSE log[i].patch
        rejected(lines, hunks) == HunkVerdict(lines, hunks[FirstBadHunk(lines, hunks, 1)])
    IN  rejected(ReadLines(log[i].before.data), ParsePatch(text).hunks)

\* C21: whenever revert_patch fails because the Context Matcher rejects the
\* reversed patch (a Remove line is missing from its window, or a hunk's window
\* lies outside the file), the result has error_type context_mismatch and its
\* error message notes that the file has been modified since the patch was
\* applied.
C21_RevertFailureNotesModification ==
    \A i \in 1..Len(log) :
        log[i].op = "revert" /\ MatcherRejected(i) =>
            /\ ~log[i].result.success
            /\ log[i].result.error_type = "context_mismatch"
            /\ Contains(log[i].result.error, ModifiedSinceNote)

\* A revert_patch was refused for a missing Remove line, with the note.
C21_MissingLineNoted ==
    \E i \in 1..Len(log) :
        /\ log[i].op = "revert" /\ MatcherRejected(i)
        /\ RejectedFor(i) = "mismatch"
        /\ log[i].result.error_type = "context_mismatch"
        /\ Contains(log[i].result.error, ModifiedSinceNote)

\* A revert_patch was refused for a window outside the file, without the note.
C21_WindowOutsideNotNoted ==
    \E i \in 1..Len(log) :
        /\ log[i].op = "revert" /\ MatcherRejected(i)
        /\ RejectedFor(i) = "range"
        /\ log[i].result.error_type = "context_mismatch"
        /\ ~Contains(log[i].result.error, ModifiedSinceNote)

\* ------------------------------------------------------------------ C22
\* Call i of the log is a validate_patch whose result carries a preview.
HasPreview(i) == log[i].op = "validate" /\ log[i].result.valid = "true"

\* C22: every validate_patch result with a preview has
\* affected_line_range.start equal to the least target_start of the patch's
\* hunks and affected_line_range.end equal to the greatest
\* target_start + target_count - 1, and [1, 1] for a patch without hunks;
\* start >= 1 and end >= 1 always.
C22_AffectedRangeSpansTargets ==
    \A i \in 1..Len(log) :
        HasPreview(i) =>
            LET hunks == ParsePatch(log[i].patch).hunks
                last(h) == h.target_start + h.target_count - 1
                start == log[i].result.affected_line_range[1]
                end == log[i].result.affected_line_range[2]
            IN  /\ Len(hunks) = 0 => start = 1 /\ end = 1
                /\ Len(hunks) > 0 =>
                      /\ \E k \in 1..Len(hunks) : start = hunks[k].target_start
                      /\ \A k \in 1..Len(hunks) : start <= hunks[k].target_start
                      /\ \E k \in 1..Len(hunks) : end = last(hunks[k])
                      /\ \A k \in 1..Len(hunks) : last(hunks[k]) <= end
                /\ start >= 1
                /\ end >= 1

\* A preview of two hunks: the range starts at one hunk's first target line
\* and ends at the other's last.
C22_RangeOverTwoHunks ==
    \E i \in 1..Len(log) :
        /\ HasPreview(i)
        /\ Len(ParsePatch(log[i].patch).hunks) = 2
        /\ log[i].result.affected_line_range = << 1, 2 >>

\* A preview of a patch whose one hunk leaves no line in the target: the
\* range is not that of the hunk.
C22_EmptyTargetRange ==
    \E i \in 1..Len(log) :
        /\ HasPreview(i)
        /\ Len(ParsePatch(log[i].patch).hunks) = 1
        /\ ParsePatch(log[i].patch).hunks[1].target_count = 0
        /\ log[i].result.affected_line_range = << 0, 0 >>

\* ------------------------------------------------------------------ C23
\* The line texts a reason of call i can quote: the file's lines and the
\* Remove lines of the text handed to the Context Matcher.
QuotableTexts(i) ==
    LET text == IF log[i].op = "revert" THEN ReversePatch(log[i].patch) ELSE log[i].patch
        removed(hunks) == UNION {{RStripNL(hunks[h].removed_lines[r]) :
                                     r \in 1..Len(hunks[h].removed_lines)} : h \in 1..Len(hunks)}
        held(lines) == {RStripNL(lines[k]) : k \in 1..Len(lines)}
    IN  held(ReadLines(log[i].before.data)) \cup removed(ParsePatch(text).hunks)

\* s shows a path with a directory: a slash between two characters of names.
ShowsDirectory(s) ==
    \E k \in 2..(Len(s) - 1) :
        /\ s[k] = "/"
        /\ ~IsSpace(s[k - 1]) /\ s[k - 1] \notin {"/", "'"}
        /\ ~IsSpace(s[k + 1]) /\ s[k + 1] \notin {"/", "'"}

\* C23: the reason validate_patch, apply_patch and revert_patch return for a
\* patch that the Context Matcher rejects contains no expected or found line
\* text of more than 50 characters (a placeholder stands for it) and no path
\* beyond its last component.
C23_ReasonsAreSanitized ==
    \A i \in 1..Len(log) :
        log[i].op \in {"validate", "apply", "revert"} /\ MatcherRejected(i) =>
            /\ \A t \in QuotableTexts(i) :
                  Len(t) > MaxContentLength => ~Contains(log[i].result.error, t)
            /\ ~ShowsDirectory(log[i].result.error)

\* A reason in which the placeholder stands for a line of more than 50
\* characters that the patch expected.
C23_LongLineReplaced ==
    \E i \in 1..Len(log) :
        /\ log[i].op \in {"validate", "apply", "revert"} /\ MatcherRejected(i)
        /\ \E t \in QuotableTexts(i) : Len(t) > MaxContentLength
        /\ \A t \in QuotableTexts(i) :
              Len(t) > MaxContentLength => ~Contains(log[i].result.error, t)
        /\ Contains(log[i].result.error, ContentPlaceholder)

\* A reason that quotes in full a line of more than 50 characters.
C23_LongLineShown ==
    \E i \in 1..Len(log) :
        /\ MatcherRejected(i)
        /\ \E t \in QuotableTexts(i) :
              Len(t) > MaxContentLength /\ Contains(log[i].result.error, t)

\* A reason that quotes a path with its directory.
C23_DirectoryShown ==
    \E i \in 1..Len(log) : MatcherRejected(i) /\ ShowsDirectory(log[i].result.error)

\* ------------------------------------------------------------------ C24
\* How a line of a file's bytes ends.
Terminator(raw_line) ==
    LET n == Len(raw_line)
    IN  IF n >= 2 /\ raw_line[n - 1] = CR /\ raw_line[n] = NL THEN "CRLF"
        ELSE IF n >= 1 /\ raw_line[n] = NL THEN "LF"
        ELSE "none"

\* The pairs << k, m >> of a one-hunk apply_patch: line k of the file before
\* it and line m of the file after it are the same line, outside the hunk's
\* window or a context line of the hunk.
KeptLines(n, hunk) ==
    LET start_idx == hunk.source_start - 1
        added == Cardinality({j \in 1..Len(hunk.lines) : hunk.lines[j][1] # "remove"})
        count(j, tags) == Cardinality({m \in 1..(j - 1) : hunk.lines[m][1] \in tags})
    IN  {<< k, k >> : k \in 1..start_idx}
            \cup {<< k, k - hunk.source_count + added >> :
                     k \in (start_idx + hunk.source_count + 1)..n}
            \cup {<< start_idx + count(j, {"context", "remove"}) + 1,
                     start_idx + count(j, {"context", "add"}) + 1 >> :
                     j \in {j \in 1..Len(hunk.lines) : hunk.lines[j][1] = "context"}}

\* Call i of the log is a successful apply_patch of a one-hunk patch that wrote.
AppliedOneHunk(i) ==
    /\ log[i].op = "apply" /\ ~log[i].dry_run /\ log[i].result.success
    /\ Len(ParsePatchHunks(log[i].patch).hunks) = 1

\* C24: a successful apply_patch preserves line endings: every line outside
\* the hunks' windows and every context line ends after the call as it ended
\* before it (LF, CRLF, or nothing for a last line).
C24_KeptLinesKeepTerminators ==
    \A i \in 1..Len(log) :
        AppliedOneHunk(i) =>
            LET before == KeepEndsLines(log[i].before.data)
                after == KeepEndsLines(log[i].after.data)
            IN  \A pr \in KeptLines(Len(before), ParsePatchHunks(log[i].patch).hunks[1]) :
                    /\ pr[2] \in 1..Len(after)
                    /\ Terminator(after[pr[2]]) = Terminator(before[pr[1]])

\* An apply_patch on a file of LF lines changed one line and left another,
\* which still ends with LF.
C24_LfKept ==
    \E i \in 1..Len(log) :
        /\ AppliedOneHunk(i)
        /\ log[i].after.data # log[i].before.data
        /\ LET before == KeepEndsLines(log[i].before.data)
               after == KeepEndsLines(log[i].after.data)
               kept == KeptLines(Len(before), ParsePatchHunks(log[i].patch).hunks[1])
           IN  /\ kept # {}
               /\ \A pr \in kept : /\ pr[2] \in 1..Len(after)
                                   /\ Terminator(before[pr[1]]) = "LF"
                                   /\ Terminator(after[pr[2]]) = "LF"

\* An apply_patch left a line of a CRLF file ending with LF.
C24_CrlfLost ==
    \E i \in 1..Len(log) :
        /\ AppliedOneHunk(i)
        /\ LET before == KeepEndsLines(log[i].before.data)
               after == KeepEndsLines(log[i].after.data)
           IN  \E pr \in KeptLines(Len(before), ParsePatchHunks(log[i].patch).hunks[1]) :
                   /\ pr[2] \in 1..Len(after)
                   /\ Terminator(before[pr[1]]) = "CRLF"
                   /\ Terminator(after[pr[2]]) = "LF"

\* ------------------------------------------------------------------ C25
\* Every hunk's window [source_start - 1, source_start - 1 + source_count) of
\* lines replaced at once by the hunk's lines without its Remove lines: what
\* goes before line p + 1, and that line unless a window holds it.
Simultaneous(lines, hunks) ==
    LET held(k) == \E h \in 1..Len(hunks) :
                       /\ hunks[h].source_start - 1 < k
                       /\ k <= hunks[h].source_start - 1 + hunks[h].source_count
        put(h, p) == IF hunks[h].source_start - 1 = p THEN NewSection(hunks[h].lines)
                     ELSE << >>
        piece(p) == Concat([h \in 1..Len(hunks) |-> put(h, p)])
                        \o (IF p < Len(lines) /\ ~held(p + 1) THEN << lines[p + 1] >> ELSE << >>)
    IN  Concat([q \in 1..(Len(lines) + 1) |-> piece(q - 1)])

\* The hunks in the opposite order.
Reversed(hunks) == [k \in 1..Len(hunks) |-> hunks[Len(hunks) + 1 - k]]

\* Call i of the log is a successful apply_patch that wrote, with a patch of
\* more than one hunk.
AppliedHunks(i) ==
    /\ log[i].op = "apply" /\ ~log[i].dry_run /\ log[i].result.success
    /\ Len(ParsePatchHunks(log[i].patch).hunks) > 1

\* C25: for a patch of several hunks that passes validation, apply_patch
\* (hunks applied by descending source_start) leaves the file that replacing
\* every hunk's window in the original file at once leaves, whatever the
\* order of the hunks in the patch text.
C25_HunksAppliedAsAtOnce ==
    \A i \in 1..Len(log) :
        AppliedHunks(i) =>
            LET lines == ReadLines(log[i].before.data)
                hunks == ParsePatchHunks(log[i].patch).hunks
            IN  /\ ReadText(log[i].after.data) = Concat(Simultaneous(lines, hunks))
                /\ ApplyHunks(lines, SortDesc(Reversed(hunks), << >>))
                       = ApplyHunks(lines, SortDesc(hunks, << >>))

\* Two hunks at different lines, each changing its line, were applied; the
\* file is the one that replacing both windows at once leaves.
C25_TwoWindowsReplaced ==
    \E i \in 1..Len(log) :
        /\ AppliedHunks(i)
        /\ LET lines == ReadLines(log[i].before.data)
               hunks == ParsePatchHunks(log[i].patch).hunks
           IN  /\ hunks[1].source_start > hunks[2].source_start
               /\ hunks[1].source_count = 1 /\ hunks[2].source_count = 1
               /\ ReadText(log[i].after.data) = Concat(Simultaneous(lines, hunks))
               /\ \A k \in 1..Len(lines) : ReadLines(log[i].after.data)[k] # lines[k]

\* Two hunks with the same window were applied: the file depends on their
\* order in the text.
C25_OrderDecides ==
    \E i \in 1..Len(log) :
        /\ AppliedHunks(i)
        /\ LET lines == ReadLines(log[i].before.data)
               hunks == ParsePatchHunks(log[i].patch).hunks
           IN  ApplyHunks(lines, SortDesc(Reversed(hunks), << >>))
                   # ApplyHunks(lines, SortDesc(hunks, << >>))

\* The i-th call is a writing call of apply_patch, update_content or
\* restore_backup that has returned.
WritingCall(i) ==
    /\ log[i].op \in {"apply", "update", "restore"}
    /\ ~log[i].dry_run

\* C26: after apply_patch, update_content or restore_backup has returned, with
\* success or with any failure, the temporary file of the call is not in the
\* directory.
C26_NoTempFileRemains ==
    pc = "idle" =>
        \A i \in 1..Len(log) : WritingCall(i) => fs[TempOf(log[i].call)] = NoEntry

\* A call that failed at the rename, after its temporary file was written,
\* has returned and the temporary file is gone.
C26_TempGoneAfterFailedRename ==
    /\ pc = "idle"
    /\ \E i \in 1..Len(log) :
          /\ WritingCall(i)
          /\ log[i].at \in {"replace", "rename"}
          /\ ~log[i].result.success
          /\ TempOf(log[i].call) \in touched
          /\ fs[TempOf(log[i].call)] = NoEntry

\* update_content has returned io_error and its temporary file is still there.
C26_TempLeftByUpdate ==
    /\ pc = "idle"
    /\ \E i \in 1..Len(log) :
          /\ log[i].op = "update"
          /\ log[i].result.error_type = "io_error"
          /\ fs["utmp"] # NoEntry

\* The i-th call is an apply_patch or update_content that succeeded and put a
\* new file in the target's place.
Rewrote(i) ==
    /\ log[i].op \in {"apply", "update"}
    /\ log[i].result.success
    /\ log[i].result.applied
    /\ log[i].at = "replace"

\* C27: a successful update_content or apply_patch leaves the target with the
\* mode it had before the call.
C27_ModePreserved ==
    \A i \in 1..Len(log) :
        (log[i].op \in {"apply", "update"} /\ log[i].result.success)
            => log[i].after.mode = log[i].before.mode

\* update_content has replaced a file of mode 0644 by changed content and the
\* mode is 0644 as before.
C27_DefaultModeKept ==
    \E i \in 1..Len(log) :
        /\ Rewrote(i)
        /\ log[i].op = "update"
        /\ log[i].after.data # log[i].before.data
        /\ log[i].before.mode = "0644"
        /\ log[i].after.mode = "0644"

\* A file of mode 0600 has been replaced by a successful call and its mode is
\* now that of the temporary file.
C27_ModeReset ==
    \E i \in 1..Len(log) :
        /\ Rewrote(i)
        /\ log[i].before.mode = "0600"
        /\ log[i].after.mode = "0644"

\* The texts of the lines of a hunk of _parse_patch_hunks that carry the tag.
OfTag(hunk_lines, tag) ==
    SelectSeq(hunk_lines, LAMBDA l : l[1] = tag)

Texts2(tagged) == [k \in 1..Len(tagged) |-> tagged[k][2]]

\* A hunk of _parse_patch and a hunk of _parse_patch_hunks have the same source
\* range and the same Add, Remove and Context texts.
SameHunk(v, a) ==
    /\ v.source_start = a.source_start
    /\ v.source_count = a.source_count
    /\ v.added_lines = Texts2(OfTag(a.lines, "add"))
    /\ v.removed_lines = Texts2(OfTag(a.lines, "remove"))
    /\ v.context_lines = Texts2(OfTag(a.lines, "context"))

BothParsed == probe.validated /\ probe.applied

\* C28: for every patch text that _parse_patch accepts, _parse_patch_hunks
\* raises nothing and yields the same hunks in the same order: the same
\* source_start and source_count and the same Add, Remove and Context texts.
C28_ParsersYieldSameHunks ==
    (BothParsed /\ probe.parsed.valid) =>
        /\ ~probe.hunks.raised
        /\ Len(probe.hunks.hunks) = Len(probe.parsed.hunks)
        /\ \A k \in 1..Len(probe.parsed.hunks) :
              SameHunk(probe.parsed.hunks[k], probe.hunks.hunks[k])

\* Both parsers have read an accepted text whose hunk has a source range of
\* two lines, a Remove line and an Add line, and yield that hunk.
C28_HunkParsedAlike ==
    /\ BothParsed
    /\ probe.parsed.valid
    /\ Len(probe.parsed.hunks) = 1
    /\ probe.parsed.hunks[1].source_count = 2
    /\ probe.parsed.hunks[1].removed_lines = << << "a" >> >>
    /\ Len(probe.hunks.hunks) = 1
    /\ probe.hunks.hunks[1].lines = << << "remove", << "a" >> >>, << "add", << "b" >> >> >>

\* The number of lines of the file's bytes, as readlines() counts them.
LineCount(data) == Len(ReadLines(data))

\* The i-th call is an apply_patch that wrote the file and reported success.
AppliedForReal(i) ==
    /\ log[i].op = "apply"
    /\ ~log[i].dry_run
    /\ log[i].result.success
    /\ log[i].at = "replace"

\* C29: after a successful apply_patch that is no dry run the file has as many
\* lines as before the call, plus the reported lines_added, minus the reported
\* lines_removed.
C29_LineCountFollowsReport ==
    \A i \in 1..Len(log) :
        AppliedForReal(i) =>
            LineCount(log[i].after.data)
                = LineCount(log[i].before.data) + log[i].result.changes.lines_added
                    - log[i].result.changes.lines_removed

\* A patch reported to remove one line and to add none has been applied to a
\* file of two lines and the file has one line.
C29_ReportedCountsMet ==
    \E i \in 1..Len(log) :
        /\ AppliedForReal(i)
        /\ log[i].result.changes.lines_removed = 1
        /\ log[i].result.changes.lines_added = 0
        /\ LineCount(log[i].before.data) = 2
        /\ LineCount(log[i].after.data) = 1

\* A patch reported to remove one line has been applied and the file has lost
\* two.
C29_WindowWiderThanBody ==
    \E i \in 1..Len(log) :
        /\ AppliedForReal(i)
        /\ log[i].result.changes.lines_removed = 1
        /\ log[i].result.changes.lines_added = 0
        /\ LineCount(log[i].after.data) = LineCount(log[i].before.data) - 2

\* The lines of a one-hunk patch text that follow its hunk header, the empty
\* piece after the last newline left out.
RawBody(patch_text) ==
    LET lines == SplitChar(patch_text, NL)
        first == CHOOSE k \in 1..Len(lines) :
                     /\ StartsWith(lines[k], << "@", "@" >>)
                     /\ \A j \in 1..(k - 1) : ~StartsWith(lines[j], << "@", "@" >>)
    IN  SelectSeq(From(lines, first), LAMBDA l : Len(l) > 0)

\* Every "+" line of the body is a line of the file, and every "-" line of the
\* body was a line of the file before.
ChangesMade(body, before, after) ==
    \A k \in 1..Len(body) :
        /\ body[k][1] = "+" => InList(Tail(body[k]) \o << NL >>, after)
        /\ body[k][1] = "-" => InList(Tail(body[k]) \o << NL >>, before)

\* C30: after a successful apply_patch every body line of the hunk that begins
\* with "+" has been inserted and every body line that begins with "-" has
\* been checked against the file, whatever follows the first character.
C30_NoChangeLineDropped ==
    \A i \in 1..Len(log) :
        AppliedForReal(i) =>
            ChangesMade(RawBody(log[i].patch), ReadLines(log[i].before.data),
                        ReadLines(log[i].after.data))

\* The patch that removes "a" and adds "b" has been applied: "a" was in the
\* file and "b" is.
C30_PlainLinesHonoured ==
    \E i \in 1..Len(log) :
        /\ AppliedForReal(i)
        /\ RawBody(log[i].patch) = << << "-", "a" >>, << "+", "b" >> >>
        /\ InList(<< "a", NL >>, ReadLines(log[i].before.data))
        /\ InList(<< "b", NL >>, ReadLines(log[i].after.data))
        /\ ~InList(<< "a", NL >>, ReadLines(log[i].after.data))

\* A patch with the Add line "+++y" has been applied with success and the file
\* has no line "++y".
C30_AddedLineDropped ==
    \E i \in 1..Len(log) :
        /\ AppliedForReal(i)
        /\ InList(<< "+", "+", "+", "y" >>, RawBody(log[i].patch))
        /\ ~InList(<< "+", "+", "y", NL >>, ReadLines(log[i].after.data))

\* A patch with the Remove line "---x" has been applied with success to a file
\* that has no line "--x".
C30_RemoveLineUnchecked ==
    \E i \in 1..Len(log) :
        /\ AppliedForReal(i)
        /\ InList(<< "-" >> \o DashText, RawBody(log[i].patch))
        /\ ~InList(DashText \o << NL >>, ReadLines(log[i].before.data))

====
